---- MODULE Spec2Model ----
(***************************************************************************)
(* Retrieval core of the PDF vector database: the SQLite-backed            *)
(* VectorStore (schema migrations, chunk rows, external-content FTS5       *)
(* index, workspace metadata, retrieval log), the hybrid search with its   *)
(* query cache and latency degradation, and the MainWindow handlers that   *)
(* drive them.                                                             *)
(***************************************************************************)
EXTENDS Integers, Sequences, FiniteSets, TLC

(***************************************************************************)
(* Bounds of the model.                                                    *)
(***************************************************************************)
NumWorkspaces == 2

Workspaces == 1..NumWorkspaces

(* The path VectorStore is constructed with ("vector_db.sqlite"). *)
DefaultWorkspace == 1

(***************************************************************************)
(* SQL statements of the migrations, as data.                              *)
(***************************************************************************)
TableNames == {"embeddings", "embeddings_fts", "retrieval_logs", "workspace_metadata"}

CreateTable(t, cs) == [op |-> "CREATE", table |-> t, cols |-> cs, version |-> 0]

AddColumn(t, c) == [op |-> "ADD_COLUMN", table |-> t, cols |-> {c}, version |-> 0]

PragmaUserVersion(n) == [op |-> "PRAGMA", table |-> "", cols |-> {}, version |-> n]

(* The numbers N of the `if (version < N)` blocks of init, in code order. *)
MigrationNumbers == <<1, 2, 6, 7, 8, 9, 10, 11, 12, 15>>

(* The statements of the block `if (version < n)`, before its PRAGMA. *)
MigrationSql(n) ==
    CASE n = 1 -> << CreateTable("embeddings",
                        {"id", "source_file", "text_chunk", "vector_blob"}) >>
      [] n = 2 -> << AddColumn("embeddings", "doc_id"),
                     AddColumn("embeddings", "page_num"),
                     AddColumn("embeddings", "model_sig"),
                     AddColumn("embeddings", "created_at") >>
      [] n = 6 -> << AddColumn("embeddings", "chunk_idx"),
                     AddColumn("embeddings", "model_dim"),
                     AddColumn("embeddings", "token_count"),
                     AddColumn("embeddings", "doc_version"),
                     CreateTable("embeddings_fts", {"rowid", "text_chunk"}),
                     CreateTable("retrieval_logs",
                        {"id", "query", "semantic_rank", "keyword_rank", "final_rank",
                         "latency_embedding", "latency_search", "latency_fusion",
                         "latency_rerank", "top_score", "created_at"}) >>
      [] n = 7 -> << AddColumn("embeddings", "chapter_title"),
                     AddColumn("embeddings", "section_title"),
                     AddColumn("embeddings", "chunk_type") >>
      [] n = 8 -> << AddColumn("embeddings", "heading_path"),
                     AddColumn("embeddings", "heading_level") >>
      [] n = 9 -> << AddColumn("embeddings", "heading_vec_blob") >>
      [] n = 10 -> << AddColumn("embeddings", "sentence_count"),
                      AddColumn("embeddings", "list_type"),
                      AddColumn("embeddings", "list_length") >>
      [] n = 11 -> << CreateTable("workspace_metadata", {"key", "value"}) >>
      [] n = 12 -> << AddColumn("embeddings", "boost_factor") >>
      [] n = 15 -> << AddColumn("retrieval_logs", "mmr_decay") >>
      [] OTHER -> << >>

(***************************************************************************)
(* A database file.  embeddings: chunk rows by id; seq: the AUTOINCREMENT  *)
(* high-water mark; fts: the rowids that have entries in the FTS5 index    *)
(* (content='embeddings': the index is maintained only by explicit         *)
(* statements on embeddings_fts), each with its tokens; meta:              *)
(* workspace_metadata; logs: the rows of retrieval_logs.                   *)
(***************************************************************************)
EmptyFile ==
    [ user_version |-> 0,
      tables       |-> {},
      cols         |-> [t \in TableNames |-> {}],
      embeddings   |-> << >>,
      seq          |-> 0,
      fts          |-> << >>,
      meta         |-> << >>,
      logs         |-> << >> ]

(* QSqlQuery::exec of a list of schema statements.  A statement that fails  *)
(* (ALTER on a missing table, duplicate column) changes nothing and the    *)
(* caller goes on; CREATE ... IF NOT EXISTS keeps an existing table.       *)
TableExistsAt(db, stmts, i, t) ==
    \/ t \in db.tables
    \/ \E j \in 1..(i - 1) : stmts[j].op = "CREATE" /\ stmts[j].table = t

StatementTakesEffect(db, stmts, i) ==
    \/ stmts[i].op = "CREATE" /\ ~TableExistsAt(db, stmts, i, stmts[i].table)
    \/ stmts[i].op = "ADD_COLUMN" /\ TableExistsAt(db, stmts, i, stmts[i].table)

ExecAll(db, stmts) ==
    LET pragmas == {i \in 1..Len(stmts) : stmts[i].op = "PRAGMA"}
        lastPragma == CHOOSE i \in pragmas : \A j \in pragmas : j <= i
    IN [db EXCEPT
          !.tables = @ \cup {stmts[i].table : i \in {k \in 1..Len(stmts) : stmts[k].op = "CREATE"}},
          !.cols = [t \in TableNames |->
                      @[t] \cup UNION {stmts[i].cols :
                                         i \in {k \in 1..Len(stmts) :
                                                  /\ stmts[k].table = t
                                                  /\ StatementTakesEffect(db, stmts, k)}}],
          !.user_version = IF pragmas = {} THEN @ ELSE stmts[lastPragma].version]

(* The guard of a migration block: `if (version < N)`, version read once. *)
MigrationDueOffByOne(version, n) == version <= n

MigrationDue(version, n) == version < n

(* The statements init runs, in order: each due block, then its PRAGMA. *)
RECURSIVE RunMigrations(_, _)
RunMigrations(version, i) ==
    IF i > Len(MigrationNumbers) THEN << >>
    ELSE LET n == MigrationNumbers[i]
         IN (IF MigrationDue(version, n)
             THEN MigrationSql(n) \o << PragmaUserVersion(n) >>
             ELSE << >>) \o RunMigrations(version, i + 1)

(* VectorStore::init on an opened file: [db, log], log = statements run. *)
init(db) ==
    LET log == RunMigrations(db.user_version, 1)
    IN [db |-> ExecAll(db, log), log |-> log]

(* A file whose stored schema version is v: the blocks numbered at most v *)
(* have run on it (the version is written after each block).              *)
RECURSIVE BlocksUpTo(_, _)
BlocksUpTo(v, i) ==
    IF i > Len(MigrationNumbers) THEN << >>
    ELSE (IF MigrationNumbers[i] <= v THEN MigrationSql(MigrationNumbers[i]) ELSE << >>)
         \o BlocksUpTo(v, i + 1)

FileAt(v) == [ExecAll(EmptyFile, BlocksUpTo(v, 1)) EXCEPT !.user_version = v]

MaxStoredVersion == MigrationNumbers[Len(MigrationNumbers)]

(***************************************************************************)
(* Text.  A QString is a sequence of one-character strings.                *)
(***************************************************************************)
UpperChars == << "A", "B", "C", "D", "E", "F", "G", "H", "I", "J", "K", "L", "M", "N", "O", "P", "Q", "R", "S", "T", "U", "V", "W", "X", "Y", "Z" >>

LowerChars == << "a", "b", "c", "d", "e", "f", "g", "h", "i", "j", "k", "l", "m", "n", "o", "p", "q", "r", "s", "t", "u", "v", "w", "x", "y", "z" >>

DigitChars == { "0", "1", "2", "3", "4", "5", "6", "7", "8", "9" }

IsLetter(c) == \E i \in 1..Len(LowerChars) : c = LowerChars[i] \/ c = UpperChars[i]

IsAlnum(c) == IsLetter(c) \/ c \in DigitChars

(* \w of QRegularExpression: letters, digits, underscore. *)
IsWordChar(c) == IsAlnum(c) \/ c = "_"

toLowerChar(c) ==
    IF \E i \in 1..Len(UpperChars) : UpperChars[i] = c
    THEN LowerChars[CHOOSE i \in 1..Len(UpperChars) : UpperChars[i] = c]
    ELSE c

(* QString::toLower *)
toLower(s) == [i \in 1..Len(s) |-> toLowerChar(s[i])]

SetMin(S) == CHOOSE x \in S : \A y \in S : x <= y

SetMax(S) == CHOOSE x \in S : \A y \in S : y <= x

(* QString::trimmed *)
trimmed(s) ==
    LET solid == {i \in 1..Len(s) : s[i] # " "}
    IN IF solid = {} THEN << >> ELSE SubSeq(s, SetMin(solid), SetMax(solid))

(* q.contains(QRegularExpression("\\b(phrase)\\b")) for one alternative. *)
ContainsPhrase(q, p) ==
    \E i \in 1..(Len(q) - Len(p) + 1) :
        /\ SubSeq(q, i, i + Len(p) - 1) = p
        /\ (i = 1 \/ ~IsWordChar(q[i - 1]))
        /\ (i + Len(p) - 1 = Len(q) \/ ~IsWordChar(q[i + Len(p)]))

ContainsAny(q, phrases) == \E p \in phrases : ContainsPhrase(q, p)

DefinitionPhrases ==
    { << "w", "h", "a", "t", " ", "i", "s" >>,
      << "d", "e", "f", "i", "n", "e" >>,
      << "d", "e", "f", "i", "n", "i", "t", "i", "o", "n", " ", "o", "f" >>,
      << "m", "e", "a", "n", "i", "n", "g", " ", "o", "f" >>,
      << "t", "h", "e", "o", "r", "e", "m" >>,
      << "l", "e", "m", "m", "a" >> }

ProcedurePhrases ==
    { << "h", "o", "w", " ", "t", "o" >>,
      << "s", "t", "e", "p", "s", " ", "t", "o" >>,
      << "p", "r", "o", "c", "e", "d", "u", "r", "e", " ", "f", "o", "r" >>,
      << "p", "r", "o", "c", "e", "s", "s", " ", "o", "f" >> }

SummaryPhrases ==
    { << "s", "u", "m", "m", "a", "r", "y" >>,
      << "o", "v", "e", "r", "v", "i", "e", "w" >>,
      << "e", "x", "p", "l", "a", "i", "n", " ", "c", "h", "a", "p", "t", "e", "r" >>,
      << "s", "u", "m", "m", "a", "r", "i", "z", "e" >> }

ExamplePhrases ==
    { << "e", "x", "a", "m", "p", "l", "e" >>,
      << "i", "l", "l", "u", "s", "t", "r", "a", "t", "i", "o", "n" >>,
      << "c", "a", "s", "e", " ", "s", "t", "u", "d", "y" >>,
      << "w", "a", "l", "k", "t", "h", "r", "o", "u", "g", "h" >> }

(* detectIntent with the Summary test in front *)
detectIntentSummaryFirst(queryText) ==
    LET q == toLower(queryText)
    IN IF ContainsAny(q, SummaryPhrases) THEN "Summary"
       ELSE IF ContainsAny(q, DefinitionPhrases) THEN "Definition"
       ELSE IF ContainsAny(q, ProcedurePhrases) THEN "Procedure"
       ELSE IF ContainsAny(q, ExamplePhrases) THEN "Example"
       ELSE "General"

(* VectorStore::detectIntent *)
detectIntent(queryText) ==
    LET q == toLower(queryText)
    IN IF ContainsAny(q, DefinitionPhrases) THEN "Definition"
       ELSE IF ContainsAny(q, ProcedurePhrases) THEN "Procedure"
       ELSE IF ContainsAny(q, SummaryPhrases) THEN "Summary"
       ELSE IF ContainsAny(q, ExamplePhrases) THEN "Example"
       ELSE "General"

(* The tokens the FTS5 tokenizer makes of a text: the maximal runs of      *)
(* letters and digits, case-folded.                                        *)
Words(s) ==
    LET l == toLower(s)
    IN { SubSeq(l, i, j) : <<i, j>> \in
           { ij \in (1..Len(l)) \X (1..Len(l)) :
                /\ ij[1] <= ij[2]
                /\ \A k \in ij[1]..ij[2] : IsAlnum(l[k])
                /\ (ij[1] = 1 \/ ~IsAlnum(l[ij[1] - 1]))
                /\ (ij[2] = Len(l) \/ ~IsAlnum(l[ij[2] + 1])) } }

(* An FTS5 MATCH string of barewords separated by blanks is the AND of its *)
(* terms; an empty string or a character outside barewords and blanks is a *)
(* syntax error, and the query yields no row.                              *)
FtsQueryParses(q) ==
    /\ \A i \in 1..Len(q) : IsWordChar(q[i]) \/ q[i] = " "
    /\ \E i \in 1..Len(q) : IsWordChar(q[i])

FtsMatches(q, indexedWords) == FtsQueryParses(q) /\ Words(q) \subseteq indexedWords

ContextPrefix == << "[", "C", "O", "N", "T", "E", "X", "T", ":", " " >>

ContextSuffix == << "]", " " >>

ClickPrefix == << "U", "S", "E", "R", "_", "C", "L", "I", "C", "K", ":", " " >>

(* addEntry: path.replace(QRegularExpression("[^a-zA-Z0-9\\s]"), " ") *)
headingTokens(path) ==
    [i \in 1..Len(path) |-> IF IsAlnum(path[i]) \/ path[i] = " " THEN path[i] ELSE " "]

(* addEntry: QString("[CONTEXT: %1] %2").arg(headingTokens).arg(text) *)
indexedText(path, text) == ContextPrefix \o headingTokens(path) \o ContextSuffix \o text

(***************************************************************************)
(* workspace_metadata as a map; a statement on a missing table or column   *)
(* fails in prepare/exec and has no effect.                                *)
(***************************************************************************)
HasColumns(db, t, cs) == t \in db.tables /\ cs \subseteq db.cols[t]

MetaCols == {"key", "value"}

(* VectorStore::getMetadata: "" (modelled as -1) when there is no row. *)
getMetadata(db, key) ==
    IF HasColumns(db, "workspace_metadata", MetaCols) /\ key \in DOMAIN db.meta
    THEN db.meta[key] ELSE -1

(* VectorStore::setMetadata: INSERT OR REPLACE *)
setMetadata(db, key, value) ==
    IF HasColumns(db, "workspace_metadata", MetaCols)
    THEN [db EXCEPT !.meta = [k \in (DOMAIN @) \cup {key} |-> IF k = key THEN value ELSE @[k]]]
    ELSE db

(* VectorStore::getRegisteredDimension: dim.isEmpty() ? 0 : dim.toInt() *)
getRegisteredDimension(db) ==
    LET dim == getMetadata(db, "embedding_dimension")
    IN IF dim = -1 THEN 0 ELSE dim

(* VectorStore::setRegisteredDimension *)
setRegisteredDimension(db, dim) == setMetadata(db, "embedding_dimension", dim)

(***************************************************************************)
(* Chunk rows.  boost_factor is kept in tenths (10 is the default 1.0).    *)
(***************************************************************************)
DefaultBoost == 10

AddEntryCols ==
    {"source_file", "text_chunk", "vector_blob", "doc_id", "page_num", "chunk_idx",
     "model_sig", "model_dim", "heading_path", "heading_level", "chunk_type",
     "sentence_count", "list_type", "list_length"}

(* What SQLite makes of the two INSERTs of addEntry: both run, the first   *)
(* fails in exec (lock, disk), or the second does.                         *)
IoOutcomes == {"ok", "insertFails", "ftsFails"}

(* VectorStore::addEntry; chunk = [text, path, level, type, doc]. *)
addEntry(db, open, chunk, embedding, io) ==
    IF ~open \/ ~HasColumns(db, "embeddings", AddEntryCols) \/ io = "insertFails"
    THEN [db |-> db, ok |-> FALSE]
    ELSE LET lastId == db.seq + 1
             row == [embedding     |-> embedding,
                     text_chunk    |-> chunk.text,
                     heading_path  |-> chunk.path,
                     heading_level |-> chunk.level,
                     chunk_type    |-> chunk.type,
                     doc_id        |-> chunk.doc,
                     boost_factor  |-> IF "boost_factor" \in db.cols["embeddings"]
                                       THEN DefaultBoost ELSE 0]
             d1 == [db EXCEPT !.seq = lastId,
                              !.embeddings = [i \in (DOMAIN @) \cup {lastId} |->
                                                IF i = lastId THEN row ELSE @[i]]]
             d2 == IF getRegisteredDimension(d1) = 0
                   THEN setRegisteredDimension(d1, Len(embedding)) ELSE d1
             d3 == IF HasColumns(d2, "embeddings_fts", {"rowid", "text_chunk"}) /\ io # "ftsFails"
                   THEN [d2 EXCEPT !.fts = [i \in (DOMAIN @) \cup {lastId} |->
                                              IF i = lastId
                                              THEN Words(indexedText(chunk.path, chunk.text))
                                              ELSE @[i]]]
                   ELSE d2
         IN [db |-> d3, ok |-> TRUE]

(* VectorStore::clear *)
clear(db) ==
    LET d1 == IF "embeddings" \in db.tables
              THEN [db EXCEPT !.embeddings = << >>] ELSE db
    IN IF HasColumns(d1, "workspace_metadata", MetaCols)
       THEN [d1 EXCEPT !.meta = [k \in (DOMAIN @) \ {"embedding_dimension"} |-> @[k]]]
       ELSE d1

(* VectorStore::boostEntry, amount in tenths *)
boostEntry(db, entryId, amount) ==
    IF HasColumns(db, "embeddings", {"id", "boost_factor"})
    THEN [db EXCEPT !.embeddings = [i \in DOMAIN @ |->
                        IF i = entryId THEN [@[i] EXCEPT !.boost_factor = @ + amount]
                        ELSE @[i]]]
    ELSE db

Null == -1

(* A row of retrieval_logs; the stability of logRetrieval is bound to the   *)
(* mmr_decay slot.  mmr_penalty and mmr_decay are in thousandths.            *)
LogRow(query, sRank, kRank, fRank, mmrPenalty, isExploration, rankDelta, stability) ==
    [query |-> query, semantic_rank |-> sRank, keyword_rank |-> kRank,
     final_rank |-> fRank, mmr_penalty |-> mmrPenalty, is_exploration |-> isExploration,
     rank_delta |-> rankDelta, mmr_decay |-> stability]

InteractionCols == {"query", "final_rank", "top_score", "is_exploration"}

BoostPerClick == 1

(* The branch of addInteraction that decides on the boost. *)
BoostsOnAnyClick(isExploration) == TRUE

BoostsOnClick(isExploration) == ~isExploration

(* VectorStore::addInteraction *)
addInteraction(db, entryId, query, isExploration) ==
    LET d1 == IF HasColumns(db, "retrieval_logs", InteractionCols)
              THEN [db EXCEPT !.logs = Append(@, LogRow(ClickPrefix \o query, Null, Null, entryId, Null,
                                                         IF isExploration THEN 1 ELSE 0, Null,
                                                         Null))]
              ELSE db
    IN IF BoostsOnClick(isExploration) THEN boostEntry(d1, entryId, BoostPerClick) ELSE d1

LogRetrievalCols ==
    {"query", "semantic_rank", "keyword_rank", "final_rank", "latency_embed",
     "latency_search", "latency_fusion", "latency_rerank", "top_score", "mmr_penalty",
     "is_exploration", "rank_delta", "mmr_decay"}

(* VectorStore::logRetrieval *)
logRetrieval(db, open, query, sRank, kRank, fRank, mmrPenalty, isExploration, rankDelta, stability) ==
    IF open /\ HasColumns(db, "retrieval_logs", LogRetrievalCols)
    THEN [db EXCEPT !.logs = Append(@, LogRow(query, sRank, kRank, fRank, mmrPenalty,
                                               IF isExploration THEN 1 ELSE 0, rankDelta,
                                               stability))]
    ELSE db

(***************************************************************************)
(* Vectors and scores.  A float vector is a sequence of small integers.    *)
(* A cosine is kept exactly as dot / sqrt(nn); every other score is a      *)
(* fixed-point number of ScoreUnit to the unit.                            *)
(***************************************************************************)

RECURSIVE Dot(_, _)
Dot(v1, v2) == IF v1 = << >> THEN 0 ELSE Head(v1) * Head(v2) + Dot(Tail(v1), Tail(v2))

ZeroCos == [kind |-> "cos", num |-> 0, den |-> 1]

(* VectorStore::cosineSimilarity *)
cosineSimilarity(v1, v2) ==
    IF Len(v1) # Len(v2) \/ Len(v1) = 0 THEN ZeroCos
    ELSE IF Dot(v1, v1) = 0 \/ Dot(v2, v2) = 0 THEN ZeroCos
    ELSE [kind |-> "cos", num |-> Dot(v1, v2), den |-> Dot(v1, v1) * Dot(v2, v2)]

Sgn(x) == IF x > 0 THEN 1 ELSE IF x < 0 THEN -1 ELSE 0

(* sim > num / den for a threshold num / den >= 0 *)
CosExceeds(sim, num, den) == sim.num > 0 /\ sim.num * sim.num * den * den > num * num * sim.den

RrfK == 60

(* Resolution of 1.0 / (K + rank). *)
RrfScale == 10000000

(* 1.0; weights, boosts and the stability bias are multiples of 1/20. *)
ScoreUnit == 20 * RrfScale

Fixed(n) == [kind |-> "fix", num |-> n, den |-> ScoreUnit]

(* The comparator `a.score > b.score` of the std::sort calls. *)
ScoreGreater(a, b) ==
    IF a.score.kind = "cos"
    THEN Sgn(a.score.num) * a.score.num * a.score.num * b.score.den
           > Sgn(b.score.num) * b.score.num * b.score.num * a.score.den
    ELSE a.score.num > b.score.num

(* The elements std::sort may leave at position i: those with fewer than i *)
(* greater elements and at least i elements not smaller.                   *)
SortedAt(S, i) ==
    { x \in S : /\ Cardinality({y \in S : ScoreGreater(y, x)}) < i
                /\ Cardinality({y \in S : ~ScoreGreater(x, y)}) >= i }

(* std::sort: any arrangement in descending order (ties are unordered). *)
RECURSIVE SortedPrefixes(_, _)
SortedPrefixes(S, n) ==
    IF n = 0 THEN { << >> }
    ELSE UNION { { Append(p, x) : x \in SortedAt(S, n) \ { p[i] : i \in 1..Len(p) } } :
                 p \in SortedPrefixes(S, n - 1) }

SortedLists(S) == SortedPrefixes(S, Cardinality(S))

(* The ids of a result set in rowid order. *)
Ascending(S) == [i \in 1..Cardinality(S) |-> CHOOSE x \in S : Cardinality({y \in S : y < x}) = i - 1]

Take(s, n) == IF Len(s) > n THEN SubSeq(s, 1, n) ELSE s

(* VectorEntry with the members the retrieval reads. *)
(* trustScore is in hundredths.                                            *)
VectorEntry(id, score, docId, headingPath, headingLevel, chunkType, trustScore) ==
    [id |-> id, score |-> score, docId |-> docId, headingPath |-> headingPath,
     headingLevel |-> headingLevel, chunkType |-> chunkType, trustScore |-> trustScore,
     semanticRank |-> 0, keywordRank |-> 0, rerankRank |-> 0, isExploration |-> FALSE]

SearchCols ==
    {"id", "text_chunk", "vector_blob", "source_file", "doc_id", "page_num", "model_sig",
     "created_at", "boost_factor"}

(* VectorStore::search: the possible lists.  The SELECT reads neither      *)
(* heading_path, heading_level nor chunk_type: those members keep their    *)
(* defaults.  recencyFactor (in tenths) is what the rows' age makes of     *)
(* qMax(0.5f, 1.0f - secsAgo / 30 days); the rows are taken to be of one   *)
(* age.                                                                    *)
search(db, queryEmbedding, limit, recencyFactor) ==
    IF ~HasColumns(db, "embeddings", SearchCols) THEN { << >> }
    ELSE LET semanticResults ==
                 { VectorEntry(id, cosineSimilarity(queryEmbedding, db.embeddings[id].embedding),
                               db.embeddings[id].doc_id, << >>, 0, "",
                               db.embeddings[id].boost_factor * recencyFactor) :
                     id \in DOMAIN db.embeddings }
         IN { Take(s, limit) : s \in SortedLists(semanticResults) }

FtsSelectCols ==
    {"id", "text_chunk", "source_file", "page_num", "heading_path", "heading_level",
     "chunk_type", "doc_id", "sentence_count", "list_type", "list_length"}

(* SELECT ... FROM embeddings WHERE id IN (SELECT rowid FROM embeddings_fts *)
(* WHERE embeddings_fts MATCH :query) LIMIT :limit                          *)
FtsQuery(db, cols, queryText, limit, score, trustScore) ==
    IF ~HasColumns(db, "embeddings", cols) \/ "embeddings_fts" \notin db.tables THEN << >>
    ELSE LET ids == { id \in (DOMAIN db.embeddings) \cap (DOMAIN db.fts) :
                        FtsMatches(queryText, db.fts[id]) }
             rows == Take(Ascending(ids), limit)
         IN [i \in 1..Len(rows) |->
               VectorEntry(rows[i], score, db.embeddings[rows[i]].doc_id,
                           db.embeddings[rows[i]].heading_path,
                           db.embeddings[rows[i]].heading_level,
                           db.embeddings[rows[i]].chunk_type, trustScore)]

HalfScore == Fixed(ScoreUnit \div 2)

(* VectorStore::ftsSearch *)
ftsSearch(db, queryText, limit) ==
    FtsQuery(db, FtsSelectCols \cup {"created_at", "boost_factor"}, queryText, limit,
             HalfScore, 100)

(***************************************************************************)
(* QCache<QString, QVector<VectorEntry>>: entries most recently used       *)
(* first, every entry of cost 1.                                           *)
(***************************************************************************)
CacheMaxCost == 100

CacheKeys(cache) == { cache[i].key : i \in 1..Len(cache) }

CacheIndex(cache, key) == CHOOSE i \in 1..Len(cache) : cache[i].key = key

CacheWithout(cache, key) == SelectSeq(cache, LAMBDA e : e.key # key)

(* QCache::object: the entry becomes the most recently used. *)
CacheObject(cache, key) == cache[CacheIndex(cache, key)].value

CacheTouch(cache, key) == << cache[CacheIndex(cache, key)] >> \o CacheWithout(cache, key)

(* QCache::insert *)
CacheInsert(cache, key, value) ==
    Take(<< [key |-> key, value |-> value] >> \o CacheWithout(cache, key), CacheMaxCost)

(***************************************************************************)
(* Hybrid search.                                                          *)
(***************************************************************************)
(* SearchOptions: semanticThreshold = 0.95f is thresholdNum / thresholdDen. *)
SearchOptions(limit, enableExploration, experimentalMmr) ==
    [limit |-> limit, thresholdNum |-> 19, thresholdDen |-> 20,
     enableExploration |-> enableExploration, experimentalMmr |-> experimentalMmr]

weightSemantic(intent) ==
    IF intent \in {"Definition", "Procedure"} THEN 7 ELSE IF intent = "Summary" THEN 14 ELSE 10

weightKeyword(intent) ==
    IF intent \in {"Definition", "Procedure"} THEN 13 ELSE IF intent = "Summary" THEN 6 ELSE 10

LowLatencyLimit == 1500

CriticalLatencyLimit == 4000

(* retrievalLimit without the widening by intent *)
retrievalLimitNarrow(intent, limit, avgLatency) == limit * 3

retrievalLimit(intent, limit, avgLatency) ==
    IF avgLatency > LowLatencyLimit THEN limit * 3
    ELSE IF intent \in {"Definition", "Procedure"} THEN limit * 3
    ELSE IF intent = "Summary" THEN limit * 6
    ELSE limit * 4

(* `criticalLatency && intent != IntentType::Summary` *)
CriticalBypassNever(avgLatency, intent) == FALSE

CriticalBypass(avgLatency, intent) == avgLatency > CriticalLatencyLimit /\ intent # "Summary"

(* avgLatency = (0.8 * avgLatency) + (0.2 * tSearch), stored in a qint64 *)
NextAvgLatency(avgLatency, tSearch) == (8 * avgLatency + 2 * tSearch) \div 10

(* weight * (1.0 / (K - rank)) *)
RrfTermRising(weight, rank) == weight * (RrfScale \div (RrfK - rank))

(* weight * (1.0 / (K + i + 1)), rank = i + 1 *)
RrfTerm(weight, rank) == weight * (RrfScale \div (RrfK + rank))

(* The intentBoost of the loop over semanticRes, in twentieths. *)
intentBoost(intent, entry) ==
    (IF intent = "Definition" /\ entry.chunkType = "definition" THEN 10
     ELSE IF intent = "Summary" /\ entry.chunkType = "summary" THEN 10
     ELSE IF intent = "Procedure" /\ entry.chunkType = "list" THEN 6
     ELSE IF intent = "Example" /\ entry.chunkType = "example" THEN 8
     ELSE 0)
    + (IF intent = "Summary" /\ entry.headingLevel = 1 THEN 4 ELSE 0)

RankIn(list, id) ==
    IF \E i \in 1..Len(list) : list[i].id = id
    THEN CHOOSE i \in 1..Len(list) : list[i].id = id ELSE 0

(* rrfScores / entryMap / semanticRanks / keywordRanks and the loop that   *)
(* builds finalResults from them, in key order.                            *)
Fuse(semanticRes, keywordRes, intent) ==
    LET ids == { semanticRes[i].id : i \in 1..Len(semanticRes) }
                 \cup { keywordRes[i].id : i \in 1..Len(keywordRes) }
        order == Ascending(ids)
        fused(id) ==
            LET sr == RankIn(semanticRes, id)
                kr == RankIn(keywordRes, id)
                e == IF sr > 0 THEN semanticRes[sr] ELSE keywordRes[kr]
                rrf == (IF sr > 0
                        THEN RrfTerm(weightSemantic(intent), sr)
                               + intentBoost(intent, semanticRes[sr]) * RrfScale
                        ELSE 0)
                       + (IF kr > 0 THEN RrfTerm(weightKeyword(intent), kr) ELSE 0)
            IN [e EXCEPT !.score = Fixed(rrf), !.semanticRank = sr, !.keywordRank = kr]
    IN [i \in 1..Len(order) |-> fused(order[i])]

StabilityCols == {"query", "rank_delta", "is_exploration"}

RECURSIVE SumAbsDelta(_)
SumAbsDelta(rows) ==
    IF rows = << >> THEN 0
    ELSE (IF Head(rows).rank_delta < 0 THEN -Head(rows).rank_delta ELSE Head(rows).rank_delta)
         + SumAbsDelta(Tail(rows))

(* queryStability starting from 0.0f *)
queryStabilityFromZero(db, queryText) ==
    IF ~HasColumns(db, "retrieval_logs", StabilityCols) THEN 0 ELSE 1000

(* queryStability in thousandths: 1.0 unless the stability query runs and  *)
(* yields a row; AVG over no rows is NULL, read as 0.                      *)
queryStability(db, queryText) ==
    IF ~HasColumns(db, "retrieval_logs", StabilityCols) THEN 1000
    ELSE LET rows == SelectSeq(db.logs, LAMBDA r : r.query = queryText /\ r.is_exploration = 0
                                                     /\ r.rank_delta # Null)
         IN IF rows = << >> THEN 1000
            ELSE LET drop == (SumAbsDelta(rows) * 1000) \div (Len(rows) * 5)
                 IN IF drop > 1000 THEN 0 ELSE 1000 - drop

(* stabilityMultiplier * 0.1, in twentieths *)
stabilityMultiplier(intent) ==
    IF intent = "Definition" THEN 4
    ELSE IF intent = "Procedure" THEN 3
    ELSE IF intent = "Summary" THEN 2
    ELSE 1

(* A bias that grows with the position of the entry in the fused list.     *)
StabilityBiasByPosition(list, stability, intent) ==
    [i \in 1..Len(list) |->
       [list[i] EXCEPT !.score =
           Fixed(@.num + i * stability * stabilityMultiplier(intent) * (RrfScale \div 1000))]]

StabilityBias(list, stability, intent) ==
    [i \in 1..Len(list) |->
       [list[i] EXCEPT !.score =
           Fixed(@.num + stability * stabilityMultiplier(intent) * (RrfScale \div 1000))]]

(***************************************************************************)
(* Phase 4.1, adaptive MMR.  lambda, the entropy and the penalties are in  *)
(* thousandths; the MMR score is in 1 / 200000 of a score unit.            *)
(***************************************************************************)
RECURSIVE Sum(_)
Sum(s) == IF s = << >> THEN 0 ELSE Head(s) + Sum(Tail(s))

(* queryText.split(" ").size() *)
SplitCount(queryText) == 1 + Cardinality({ i \in 1..Len(queryText) : queryText[i] = " " })

(* complexity in tenths *)
Complexity(queryText, intent) ==
    SplitCount(queryText) + (IF intent \in {"Summary", "Procedure"} THEN 5 ELSE 0)

(* qBound(0.2, 1 / (1 + exp(-5 (complexity - 0.5))), 0.8) *)
MmrLambda(complexity) ==
    IF complexity <= 2 THEN 200
    ELSE IF complexity = 3 THEN 269
    ELSE IF complexity = 4 THEN 378
    ELSE IF complexity = 5 THEN 500
    ELSE IF complexity = 6 THEN 622
    ELSE IF complexity = 7 THEN 731
    ELSE 800

(* log2 of 1..12 *)
Log2K == << 0, 1000, 1585, 2000, 2322, 2585, 2807, 3000, 3170, 3322, 3459, 3585 >>

(* currentEntropy: -sum over the documents of p log2 p, p the share of a   *)
(* document among the entries.                                             *)
DocEntropy(list) ==
    LET n == Len(list)
        count(d) == Cardinality({ i \in 1..n : list[i].docId = d })
    IN Sum([i \in 1..n |-> Log2K[n] - Log2K[count(list[i].docId)]]) \div n

(* m_avgDocEntropy = alpha * currentEntropy + (1 - alpha) * m_avgDocEntropy *)
NextAvgDocEntropy(avgDocEntropy, sessionSearchCount, currentEntropy) ==
    IF sessionSearchCount < 10 THEN (3 * currentEntropy + 7 * avgDocEntropy) \div 10
    ELSE (currentEntropy + 9 * avgDocEntropy) \div 10

(* diversityPenalty of a candidate against the entries selected so far *)
diversityPenalty(candidate, selected, avgDocEntropy) ==
    (IF \E i \in 1..Len(selected) : selected[i].docId = candidate.docId
     THEN (150 * (1100 - avgDocEntropy)) \div 1000 ELSE 0)
    + (IF \E i \in 1..Len(selected) : selected[i].headingPath = candidate.headingPath
       THEN 100 ELSE 0)

(* lambda * candidate.score - (1 - lambda) * diversityPenalty *)
mmrScore(lambda, candidate, penalty) ==
    lambda * (candidate.score.num \div 1000) - (1000 - lambda) * penalty * 200

(* The greedy loop: bestIdx is the first index with the greatest mmrScore. *)
RECURSIVE MmrSelect(_, _, _, _, _, _)
MmrSelect(diverseResults, finalResults, mmrPenaltyTotal, lambda, avgDocEntropy, limit) ==
    IF Len(diverseResults) >= limit \/ finalResults = << >>
    THEN [results |-> diverseResults, mmrPenaltyTotal |-> mmrPenaltyTotal]
    ELSE LET score(i) == mmrScore(lambda, finalResults[i],
                                  diversityPenalty(finalResults[i], diverseResults, avgDocEntropy))
             bestIdx == CHOOSE i \in 1..Len(finalResults) :
                           /\ \A j \in 1..Len(finalResults) : score(j) <= score(i)
                           /\ \A j \in 1..(i - 1) : score(j) < score(i)
             selected == finalResults[bestIdx]
         IN MmrSelect(Append(diverseResults, selected),
                      [i \in 1..(Len(finalResults) - 1) |->
                         IF i < bestIdx THEN finalResults[i] ELSE finalResults[i + 1]],
                      mmrPenaltyTotal + diversityPenalty(selected, diverseResults, avgDocEntropy),
                      lambda, avgDocEntropy, limit)

(* The stage switched off *)
MmrNeverRuns(options, finalResults) == FALSE

(* `options.experimentalMmr && finalResults.size() > 1` *)
MmrRuns(options, finalResults) == options.experimentalMmr /\ Len(finalResults) > 1

(* The stage: the list and the penalty total it yields and the members it  *)
(* leaves.                                                                 *)
Mmr(finalResults, queryText, intent, options, avgDocEntropy, sessionSearchCount) ==
    IF MmrRuns(options, finalResults)
    THEN LET entropy == NextAvgDocEntropy(avgDocEntropy, sessionSearchCount,
                                          DocEntropy(finalResults))
             sel == MmrSelect(<< finalResults[1] >>, Tail(finalResults), 0,
                              MmrLambda(Complexity(queryText, intent)), entropy, options.limit)
         IN [results |-> sel.results, mmrPenaltyTotal |-> sel.mmrPenaltyTotal,
             m_avgDocEntropy |-> entropy, m_sessionSearchCount |-> sessionSearchCount + 1]
    ELSE [results |-> finalResults, mmrPenaltyTotal |-> 0,
          m_avgDocEntropy |-> avgDocEntropy, m_sessionSearchCount |-> sessionSearchCount]

Range(s) == { s[i] : i \in 1..Len(s) }

(* Phase 4.3: the first semantic result past position options.limit with   *)
(* trustScore <= 1.0 and score > 0.65 is inserted at position 2.           *)
ExplorationCandidatesAnywhere(semanticRes, options) == 1..Len(semanticRes)

ExplorationCandidates(semanticRes, options) ==
    { i \in (options.limit + 1)..Len(semanticRes) :
        /\ semanticRes[i].trustScore <= 100
        /\ CosExceeds(semanticRes[i].score, 13, 20) }

(* explorationInjected *)
ExplorationInjected(finalResults, semanticRes, stability, intent, options) ==
    /\ options.enableExploration
    /\ stability >= 600
    /\ finalResults # << >>
    /\ intent \notin {"Definition", "Procedure"}
    /\ ExplorationCandidates(semanticRes, options) # {}

Explore(finalResults, semanticRes, stability, intent, options) ==
    IF ExplorationInjected(finalResults, semanticRes, stability, intent, options)
    THEN LET candidate == semanticRes[SetMin(ExplorationCandidates(semanticRes, options))]
             probe == [candidate EXCEPT !.isExploration = TRUE,
                                        !.score = Fixed((finalResults[1].score.num \div 20) * 19)]
         IN << finalResults[1], probe >> \o Tail(finalResults)
    ELSE finalResults

(* The outcome of a call: the list returned, the file, the cache, the      *)
(* latency average and the entropy members it leaves, and whether it ran   *)
(* the dense and the sparse retrieval.                                     *)
Outcome(path, results, db, cache, avgLatency, diversity, dense, sparse, audit) ==
    [path |-> path, results |-> results, db |-> db, cache |-> cache,
     avgLatency |-> avgLatency, m_avgDocEntropy |-> diversity.m_avgDocEntropy,
     m_sessionSearchCount |-> diversity.m_sessionSearchCount,
     dense |-> dense, sparse |-> sparse, audit |-> audit]

(* SearchAudit and the locals a call leaves behind: the limits handed to   *)
(* the dense and the sparse retrieval (0: not invoked), queryStabilityScore *)
(* and mmrPenaltyTotal in thousandths, explorationInjected, and the list   *)
(* before and after the MMR stage.                                         *)
SearchAudit(denseLimit, sparseLimit, queryStabilityScore, mmrPenaltyTotal, explorationInjected, fused, diverse) ==
    [denseLimit |-> denseLimit, sparseLimit |-> sparseLimit,
     queryStabilityScore |-> queryStabilityScore, mmrPenaltyTotal |-> mmrPenaltyTotal,
     explorationInjected |-> explorationInjected, fused |-> fused, diverse |-> diverse]

NoAudit == SearchAudit(0, 0, 1000, 0, FALSE, << >>, << >>)

(* canonicalQuery = queryText.trimmed().toLower() *)
CanonicalRaw(queryText) == queryText

Canonical(queryText) == toLower(trimmed(queryText))

(* VectorStore::hybridSearch: the possible outcomes.  db is the file of    *)
(* m_db, ftsDb the file the pool thread's connection reads, diversity the  *)
(* members m_avgDocEntropy and m_sessionSearchCount, tSearch the elapsed   *)
(* time the call measures.                                                 *)
hybridSearch(db, ftsDb, cache, semCache, avgLatency, diversity, queryText, queryEmbedding, options, tSearch, recency) ==
    LET canonicalQuery == Canonical(queryText)
        semanticHits == { i \in 1..Len(semCache) :
                            CosExceeds(cosineSimilarity(queryEmbedding, semCache[i].embedding),
                                       options.thresholdNum, options.thresholdDen) }
        intent == detectIntent(queryText)
        limit == retrievalLimit(intent, options.limit, avgLatency)
    IN IF canonicalQuery \in CacheKeys(cache)
       THEN { Outcome("exact", CacheObject(cache, canonicalQuery), db,
                      CacheTouch(cache, canonicalQuery), avgLatency, diversity, FALSE, FALSE,
                      NoAudit) }
       ELSE IF semanticHits # {}
       THEN { Outcome("semantic", semCache[SetMin(semanticHits)].results, db,
                      cache, avgLatency, diversity, FALSE, FALSE, NoAudit) }
       ELSE IF CriticalBypass(avgLatency, intent)
       THEN { Outcome("critical",
                      [i \in 1..Len(ftsSearch(db, queryText, options.limit)) |->
                         [ftsSearch(db, queryText, options.limit)[i] EXCEPT !.score = HalfScore]],
                      db, cache, avgLatency, diversity, FALSE, TRUE,
                      SearchAudit(0, options.limit, 1000, 0, FALSE, << >>, << >>)) }
       ELSE LET keywordRes == FtsQuery(ftsDb, FtsSelectCols, queryText, limit, Fixed(0), 0)
                stability == queryStability(db, queryText)
                finish(semanticRes, sorted) ==
                    LET mmr == Mmr(sorted, queryText, intent, options,
                                   diversity.m_avgDocEntropy, diversity.m_sessionSearchCount)
                        explorationInjected ==
                            ExplorationInjected(mmr.results, semanticRes, stability, intent,
                                                options)
                        finalResults ==
                            Take(Explore(mmr.results, semanticRes, stability, intent, options),
                                 options.limit)
                    IN Outcome("full", finalResults,
                               IF finalResults = << >> THEN db
                               ELSE logRetrieval(db, TRUE, queryText,
                                                 finalResults[1].semanticRank,
                                                 finalResults[1].keywordRank, 1,
                                                 mmr.mmrPenaltyTotal, explorationInjected,
                                                 finalResults[1].semanticRank - 1, stability),
                               CacheInsert(cache, canonicalQuery, finalResults),
                               NextAvgLatency(avgLatency, tSearch),
                               [m_avgDocEntropy |-> mmr.m_avgDocEntropy,
                                m_sessionSearchCount |-> mmr.m_sessionSearchCount],
                               TRUE, TRUE,
                               SearchAudit(limit, limit, stability, mmr.mmrPenaltyTotal,
                                           explorationInjected, sorted, mmr.results))
            IN UNION { { finish(semanticRes, sorted) :
                           sorted \in SortedLists(Range(StabilityBias(
                                         Fuse(semanticRes, keywordRes, intent), stability, intent))) } :
                       semanticRes \in search(db, queryEmbedding, limit, recency) }

(***************************************************************************)
(* Cross-encoder rerank.  Raw scores, m_mean and m_stdDev are held in      *)
(* thousandths.                                                            *)
(***************************************************************************)
(* The rerank models the discovery lists; NumRerankModels of them. *)
NumRerankModels == 2

RerankModels == 1..NumRerankModels

(* The items of m_rerankCombo; index -1 is the empty combo. *)
ComboText(index) ==
    IF index = -1 THEN ""
    ELSE IF index = 0 THEN "(No Reranker - Direct Retrieval)"
    ELSE IF index = 1 THEN "[Ollama] bge-reranker" ELSE "[LMStudio] bge-reranker"

(* m_rerankClient: null, or a LocalRerankClient as its constructor leaves  *)
(* it.                                                                     *)
NoClient == [model |-> 0, m_mean |-> 0, m_stdDev |-> 0, m_sampleCount |-> 0]

LocalRerankClient(model) ==
    [model |-> model, m_mean |-> 500, m_stdDev |-> 150, m_sampleCount |-> 0]

(* LocalRerankClient::loadStats *)
loadStats(c, mean, stdDev) ==
    IF stdDev > 0 THEN [c EXCEPT !.m_mean = mean, !.m_stdDev = stdDev, !.m_sampleCount = 10]
    ELSE c

Abs(x) == IF x < 0 THEN -x ELSE x

(* std::sqrt on thousandths squared *)
ISqrt(n) == CHOOSE r \in 0..n : r * r <= n /\ (r + 1) * (r + 1) > n

(* LocalRerankClient::updateStats, alpha = 0.15 *)
updateStats(c, batchScores) ==
    IF batchScores = << >> THEN c
    ELSE LET n == Len(batchScores)
             batchMean == Sum(batchScores) \div n
             count == IF c.m_sampleCount > 5 /\ Abs(batchMean - c.m_mean) > 400
                      THEN 0 ELSE c.m_sampleCount
             mean == IF count = 0 THEN batchMean
                     ELSE (85 * c.m_mean + 15 * batchMean) \div 100
             sqSum == Sum([i \in 1..n |-> (batchScores[i] - mean) * (batchScores[i] - mean)])
             batchStd == ISqrt(sqSum \div n)
             floorStd == IF batchStd < 10 THEN 10 ELSE batchStd
             stdDev == IF count = 0 THEN floorStd
                       ELSE (85 * c.m_stdDev + 15 * floorStd) \div 100
         IN [c EXCEPT !.m_mean = mean, !.m_stdDev = stdDev, !.m_sampleCount = count + 1]

(* checkConsistency that accepts every batch *)
checkConsistencyLax(scores) == TRUE

(* LocalRerankClient::checkConsistency: false when the sum of              *)
(* (s - 0.5)^2 is below 0.001.                                             *)
checkConsistency(scores) ==
    scores = << >>
    \/ Sum([i \in 1..Len(scores) |-> (scores[i] - 500) * (scores[i] - 500)]) >= 1000

(* 1 / (1 + exp(-z)) in thousandths for z in thousandths within [-3, 3]:   *)
(* the values at the integers, interpolated.                               *)
Sigmoid(z) ==
    LET at == [k \in -3..3 |-> CASE k = -3 -> 47 [] k = -2 -> 119 [] k = -1 -> 269
                                  [] k = 0 -> 500 [] k = 1 -> 731 [] k = 2 -> 881
                                  [] k = 3 -> 953]
        k == z \div 1000
    IN IF k >= 3 THEN at[3]
       ELSE at[k] + ((at[k + 1] - at[k]) * (z - 1000 * k)) \div 1000

(* LocalRerankClient::normalize: -1 for |z| > 5 *)
normalize(c, raw) ==
    IF Abs(raw - c.m_mean) > 5 * c.m_stdDev THEN -1
    ELSE LET z == ((raw - c.m_mean) * 1000) \div c.m_stdDev
             clamped == IF z < -3000 THEN -3000 ELSE IF z > 3000 THEN 3000 ELSE z
         IN Sigmoid(clamped)

(* LocalRerankClient::rerank on the reply of the scoring backend:          *)
(* [kind, scores], kind one of "transportError", "malformedJson",          *)
(* "noArray" and "scores".  Yields the client as the call leaves it, the   *)
(* lists std::sort may produce, cut to topK, what normalize made of each   *)
(* scored candidate, and whether anomalyDetected was emitted (the client   *)
(* is made by GeminiApi::setRerankModel, so GeminiApi::instance() is set). *)
rerank(c, candidates, reply, topK) ==
    IF candidates = << >> \/ reply.kind # "scores"
    THEN [client |-> c, results |-> { << >> }, normalized |-> << >>, anomaly |-> FALSE]
    ELSE LET rawScores == reply.scores
             c1 == IF checkConsistency(rawScores) THEN updateStats(c, rawScores) ELSE c
             scored == 1..(IF Len(rawScores) < Len(candidates)
                           THEN Len(rawScores) ELSE Len(candidates))
             kept == { i \in scored : normalize(c1, rawScores[i]) >= 0 }
             results == { [chunkId |-> candidates[i].id,
                           score |-> Fixed(normalize(c1, rawScores[i]) * (ScoreUnit \div 1000)),
                           originalRank |-> i - 1] : i \in kept }
         IN [client |-> c1,
             anomaly |-> ~checkConsistency(rawScores),
             results |-> { Take(l, topK) : l \in SortedLists(results) },
             normalized |-> [id \in { candidates[i].id : i \in scored } |->
                               normalize(c1, rawScores[CHOOSE i \in scored :
                                                          candidates[i].id = id])]]

(***************************************************************************)
(* What the user types, what the PDF extractor yields and what the         *)
(* embedding service returns.                                              *)
(***************************************************************************)
QueryCache == << "c", "a", "c", "h", "e" >>

QueryCachePadded == << " ", "C", "a", "c", "h", "e", " " >>

QueryWhatIs == << "w", "h", "a", "t", " ", "i", "s", " ", "c", "a", "c", "h", "e" >>

QuerySummary == << "s", "u", "m", "m", "a", "r", "y" >>

QueryBlank == << " " >>

ChunkA ==
    [text |-> << "a", " ", "c", "a", "c", "h", "e", " ", "i", "s", " ", "f", "a", "s", "t" >>,
     path |-> << "C", "h", "1", " ", ">", " ", "C", "a", "c", "h", "e", "s" >>,
     level |-> 2, type |-> "definition", doc |-> "d1"]

ChunkB ==
    [text |-> << "s", "u", "m", "m", "a", "r", "y", " ", "o", "f", " ", "d", "i", "s", "k", "s" >>,
     path |-> << "C", "h", "2" >>,
     level |-> 1, type |-> "summary", doc |-> "d2"]

(* A search request answered while indexing is stored as a chunk of the    *)
(* query text with empty metadata.                                         *)
QueryAsChunk(text) == [text |-> text, path |-> << >>, level |-> 0, type |-> "", doc |-> "d1"]

Latencies == { 100, 30000 }

Recencies == { 5, 10 }

(* Guards of the model: requests a workspace file may still store, and     *)
(* boosts a chunk may still receive.                                       *)
MaxChunks == 2

MaxClicks == 1

(* A workspace a previous session indexed: LibrarySize chunks of           *)
(* dimension 2.                                                            *)
LibrarySize == 6

RECURSIVE Indexed(_, _)
Indexed(db, n) ==
    IF n = 0 THEN db
    ELSE addEntry(Indexed(db, n - 1), TRUE, IF n % 2 = 1 THEN ChunkA ELSE ChunkB, << 10, n >>,
                  "ok").db

Library == Indexed(init(EmptyFile).db, LibrarySize)

VARIABLES
    files,              \* [Workspaces -> database file]
    m_dbPath,           \* VectorStore::m_dbPath
    dbOpen,             \* m_db.isOpen()
    m_isIndexing,       \* MainWindow::m_isIndexing
    m_searchEdit,       \* m_searchEdit->text()
    m_hybridCheck,      \* m_hybridCheck->isChecked()
    m_explorationCheck, \* m_explorationCheck->isChecked()
    m_mmrCheck,         \* m_mmrCheck->isChecked()
    resultsTable,       \* the entries shown in the results table
    m_queryCache,       \* VectorStore::m_queryCache
    m_semanticCache,    \* VectorStore::m_semanticCache
    avgLatency,         \* static avgLatency of hybridSearch
    m_avgDocEntropy,    \* VectorStore::m_avgDocEntropy, in thousandths of a bit
    m_sessionSearchCount, \* VectorStore::m_sessionSearchCount
    ftsConn,            \* the file each pool thread's FTS_Thread connection has open (0: none)
    pendingIndex,       \* an embedding request for a chunk is outstanding
    pendingSearch,      \* the query texts whose embedding request is outstanding
    reranker,           \* m_rerankCheck, m_rerankCombo, m_rerankClient and the rerank futures
    initFrom,           \* history: user_version read by the latest init (-1: none yet)
    initLog,            \* history: statements run by the latest init
    last,               \* history: the latest handler run
    missLog,            \* history: per canonical query text, the list its miss produced
    steps               \* history: the number of handler runs of the session

vars == << files, m_dbPath, dbOpen, m_isIndexing, m_searchEdit, m_hybridCheck,
           m_explorationCheck, m_mmrCheck, resultsTable, m_queryCache, m_semanticCache,
           avgLatency, m_avgDocEntropy, m_sessionSearchCount, ftsConn, pendingIndex, pendingSearch, reranker, initFrom, initLog, last, missLog,
           steps >>

windowVars == << m_isIndexing, m_searchEdit, m_hybridCheck, m_explorationCheck, m_mmrCheck, resultsTable,
                 pendingIndex, pendingSearch, reranker >>

searchVars == << m_queryCache, m_semanticCache, avgLatency, m_avgDocEntropy,
                 m_sessionSearchCount, ftsConn, missLog >>

NumPoolThreads == 2

PoolThreads == 1..NumPoolThreads

SearchLimit == 5

(* After updateEngines: the selected item and the client it left.  What a  *)
(* completed rerank leaves to look at: the model and reply of the          *)
(* request, the list handed to it, the statistics of the client the worker *)
(* ran on before and after, what normalize made of the scored candidates,  *)
(* whether the worker emitted anomalyDetected, and whether the completion  *)
(* handler took the list of the worker.                                    *)
NoTrace ==
    [model |-> 0, reply |-> [kind |-> "none"], candidates |-> << >>, before |-> NoClient,
     after |-> NoClient, normalized |-> << >>, anomaly |-> FALSE, reranked |-> FALSE,
     orphan |-> FALSE]

NoCall ==
    [op |-> "none", experimentalMmr |-> FALSE, ftsFile |-> 0, guardrail |-> FALSE, indexing |-> FALSE, embedding |-> << >>,
     regDim |-> 0, added |-> FALSE, hybrid |-> FALSE, dense |-> FALSE, sparse |-> FALSE,
     path |-> "", query |-> << >>, latBefore |-> 0, entryId |-> 0, isExploration |-> FALSE,
     logsBefore |-> 0, priorMiss |-> FALSE, priorCached |-> FALSE, priorResults |-> << >>,
     semanticPrior |-> {}, audit |-> NoAudit, chunksBefore |-> 0, returned |-> << >>,
     addOk |-> FALSE, rerank |-> NoTrace, enableExploration |-> FALSE]

(***************************************************************************)
(* MainWindow constructor: m_store->init() on the default path.            *)
(***************************************************************************)
Startup ==
    /\ ~dbOpen
    /\ LET r == init(files[m_dbPath])
       IN /\ files' = [files EXCEPT ![m_dbPath] = r.db]
          /\ initFrom' = files[m_dbPath].user_version
          /\ initLog' = r.log
    /\ dbOpen' = TRUE
    /\ last' = [NoCall EXCEPT !.op = "init"]
    /\ UNCHANGED << m_dbPath, windowVars, searchVars >>

(* Workspace combo / new workspace: close(); setPath(name); init(). *)
SwitchWorkspace(name) ==
    /\ dbOpen
    /\ m_dbPath' = name
    /\ LET r == init(files[name])
       IN /\ files' = [files EXCEPT ![name] = r.db]
          /\ initFrom' = files[name].user_version
          /\ initLog' = r.log
    /\ dbOpen' = TRUE
    /\ last' = [NoCall EXCEPT !.op = "init"]
    /\ UNCHANGED << windowVars, searchVars >>

(* The widgets and the store members as the constructors leave them. *)
WidgetsInit ==
    /\ m_isIndexing = FALSE
    /\ m_searchEdit = << >>
    /\ m_hybridCheck = TRUE
    /\ m_explorationCheck = FALSE
    /\ m_mmrCheck = FALSE
    /\ resultsTable = << >>
    /\ m_queryCache = << >>
    /\ m_semanticCache = << >>
    /\ avgLatency = 100
    /\ m_avgDocEntropy = 0
    /\ m_sessionSearchCount = 0
    /\ ftsConn = [t \in PoolThreads |-> 0]
    /\ pendingIndex = FALSE
    /\ pendingSearch = << >>
    /\ reranker = [check |-> FALSE, combo |-> -1, client |-> NoClient, jobs |-> << >>]
    /\ missLog = {}
    /\ steps = 0

WindowInit == WidgetsInit /\ last = NoCall

(* A session of at most n handler runs. *)
Session(n) == steps < n /\ steps' = steps + 1

(***************************************************************************)
(* A handler works on the part of the state it can change:                 *)
(* [db, m_isIndexing, resultsTable, m_queryCache, avgLatency,              *)
(*  m_avgDocEntropy, m_sessionSearchCount, ftsConn,                        *)
(*  last, missLog, reranker], db being the file of m_db.                   *)
(***************************************************************************)
Window ==
    [db |-> files[m_dbPath], m_isIndexing |-> m_isIndexing, resultsTable |-> resultsTable,
     m_queryCache |-> m_queryCache, avgLatency |-> avgLatency,
     m_avgDocEntropy |-> m_avgDocEntropy, m_sessionSearchCount |-> m_sessionSearchCount,
     ftsConn |-> ftsConn,
     last |-> last, missLog |-> missLog, reranker |-> reranker]

Becomes(w) ==
    /\ files' = [files EXCEPT ![m_dbPath] = w.db]
    /\ m_isIndexing' = w.m_isIndexing
    /\ resultsTable' = w.resultsTable
    /\ m_queryCache' = w.m_queryCache
    /\ avgLatency' = w.avgLatency
    /\ m_avgDocEntropy' = w.m_avgDocEntropy
    /\ m_sessionSearchCount' = w.m_sessionSearchCount
    /\ ftsConn' = w.ftsConn
    /\ last' = w.last
    /\ missLog' = w.missLog
    /\ reranker' = w.reranker

(* MainWindow::updateResultsTable *)
updateResultsTable(w, results, query) ==
    [w EXCEPT !.resultsTable = results,
              !.db = IF results = << >> THEN @
                     ELSE logRetrieval(@, TRUE, query, results[1].semanticRank,
                                       results[1].keywordRank, 1, 0, FALSE, 0, 1000)]

(* GeminiApi::rerank up to the start of the future: without a client the   *)
(* candidates come back at once through rerankingReady.                    *)
GeminiRerank(w, query, candidates) ==
    IF w.reranker.client = NoClient \/ candidates = << >>
    THEN updateResultsTable(w, candidates, m_searchEdit)
    ELSE [w EXCEPT !.reranker.jobs =
             Append(@, [client |-> w.reranker.client, orphaned |-> FALSE, query |-> query,
                        candidates |-> candidates, done |-> FALSE, results |-> << >>,
                        trace |-> [NoTrace EXCEPT !.model = w.reranker.client.model,
                                                  !.candidates = candidates]])]

(* The end of the search branch of the embeddingsReady handler: the list   *)
(* is shown, and with the rerank box checked and a reranker selected its   *)
(* first 10 entries go to GeminiApi::rerank.                               *)
Deliver(w, results, query) ==
    IF w.reranker.check /\ results # << >> /\ w.reranker.combo # 0
    THEN GeminiRerank(updateResultsTable(w, results, query), query, Take(results, 10))
    ELSE updateResultsTable(w, results, query)

(* `regDim > 0 && embedding.size() != regDim` *)
DimensionGuardrailOff(regDim, size) == FALSE

DimensionGuardrailLonger(regDim, size) == regDim > 0 /\ size > regDim

DimensionGuardrail(regDim, size) == regDim > 0 /\ size # regDim

(* History of the misses: the list the first miss of a canonical text      *)
(* produced, replaced by the list of a miss that reached the cache insert. *)
Missed(log, key, out, embedding) ==
    IF out.path = "full"
    THEN { e \in log : e.key # key }
           \cup { [key |-> key, results |-> out.results, embedding |-> embedding, cached |-> TRUE] }
    ELSE IF out.path = "critical" /\ ~\E e \in log : e.key = key
    THEN log \cup { [key |-> key, results |-> out.results, embedding |-> embedding,
                     cached |-> FALSE] }
    ELSE log

(* The search branch of the embeddingsReady handler with the hybrid box    *)
(* checked.                                                                *)
HybridBranch(w, call, query, embedding, exploration, thread, tSearch, recencyFactor) ==
    LET ftsFile == IF w.ftsConn[thread] = 0 THEN m_dbPath ELSE w.ftsConn[thread]
        ftsDb == IF ftsFile = m_dbPath THEN w.db ELSE files[ftsFile]
        key == toLower(trimmed(query))
        prior == { e \in w.missLog : e.key = key }
        record(out) ==
            [call EXCEPT !.hybrid = TRUE, !.dense = out.dense, !.sparse = out.sparse,
                         !.path = out.path, !.query = query, !.latBefore = w.avgLatency,
                         !.audit = out.audit, !.returned = out.results,
                         !.enableExploration = exploration,
                         !.experimentalMmr = m_mmrCheck,
                         !.ftsFile = IF out.path = "full" THEN ftsFile ELSE 0,
                         !.priorMiss = prior # {},
                         !.priorCached = \E e \in prior : e.cached,
                         !.priorResults = IF prior = {} THEN << >>
                                          ELSE (CHOOSE e \in prior : TRUE).results,
                         !.semanticPrior =
                             { e.results : e \in
                                 { f \in w.missLog :
                                     /\ f.cached
                                     /\ f.key # key
                                     /\ CosExceeds(cosineSimilarity(embedding, f.embedding),
                                                   19, 20) } }]
    IN { Deliver(
            [w EXCEPT !.db = out.db,
                      !.m_queryCache = out.cache,
                      !.avgLatency = out.avgLatency,
                      !.m_avgDocEntropy = out.m_avgDocEntropy,
                      !.m_sessionSearchCount = out.m_sessionSearchCount,
                      !.ftsConn = IF out.path = "full" THEN [@ EXCEPT ![thread] = ftsFile] ELSE @,
                      !.last = record(out),
                      !.missLog = Missed(@, key, out, embedding)],
            out.results, query) :
         out \in hybridSearch(w.db, ftsDb, w.m_queryCache, m_semanticCache, w.avgLatency,
                              [m_avgDocEntropy |-> w.m_avgDocEntropy,
                               m_sessionSearchCount |-> w.m_sessionSearchCount],
                              query, embedding, SearchOptions(SearchLimit, exploration, m_mmrCheck),
                              tSearch, recencyFactor) }

(* The handler of GeminiApi::embeddingsReady: the states it may leave.     *)
(* chunk is the text and metadata of the request, done whether the chunk   *)
(* and summary queues are exhausted.                                       *)
embeddingsReady(w, chunk, embedding, done, thread, tSearch, recencyFactor, io) ==
    LET regDim == getRegisteredDimension(w.db)
        call == [NoCall EXCEPT !.op = "embeddingsReady", !.embedding = embedding,
                               !.regDim = regDim, !.indexing = w.m_isIndexing,
                               !.logsBefore = Len(w.db.logs),
                               !.chunksBefore = Cardinality(DOMAIN w.db.embeddings)]
    IN IF DimensionGuardrail(regDim, Len(embedding))
       THEN { [w EXCEPT !.m_isIndexing = FALSE, !.last = [call EXCEPT !.guardrail = TRUE]] }
       ELSE IF ~w.m_isIndexing
       THEN IF m_hybridCheck
            THEN HybridBranch(w, call, m_searchEdit, embedding, m_explorationCheck, thread,
                              tSearch, recencyFactor)
            ELSE { Deliver([w EXCEPT !.last = [call EXCEPT !.dense = TRUE,
                                                           !.returned = results]],
                           results, m_searchEdit) :
                   results \in search(w.db, embedding, SearchLimit, recencyFactor) }
       ELSE { [w EXCEPT !.db = addEntry(@, TRUE, chunk, embedding, io).db,
                        !.m_isIndexing = ~done,
                        !.last = [call EXCEPT !.added = TRUE,
                                              !.addOk = addEntry(w.db, TRUE, chunk, embedding, io).ok]] }

(* selectBtn: a PDF is chosen; its first chunk goes to the embedding       *)
(* service.                                                                *)
SelectPdf ==
    /\ dbOpen
    /\ ~pendingIndex
    /\ m_isIndexing' = TRUE
    /\ pendingIndex' = TRUE
    /\ last' = [NoCall EXCEPT !.op = "selectPdf"]
    /\ UNCHANGED << files, m_dbPath, dbOpen, m_searchEdit, m_hybridCheck, m_explorationCheck, m_mmrCheck,
                    resultsTable, pendingSearch, initFrom, initLog, reranker, searchVars >>

(* The user edits the query line. *)
TypeQuery(q) ==
    /\ dbOpen
    /\ m_searchEdit # q
    /\ m_searchEdit' = q
    /\ UNCHANGED << files, m_dbPath, dbOpen, m_isIndexing, m_hybridCheck, m_explorationCheck, m_mmrCheck,
                    resultsTable, pendingIndex, pendingSearch, initFrom, initLog, reranker, last,
                    searchVars >>

ToggleHybrid ==
    /\ dbOpen
    /\ m_hybridCheck' = ~m_hybridCheck
    /\ UNCHANGED << files, m_dbPath, dbOpen, m_isIndexing, m_searchEdit, m_explorationCheck, m_mmrCheck,
                    resultsTable, pendingIndex, pendingSearch, initFrom, initLog, reranker, last,
                    searchVars >>

ToggleExploration ==
    /\ dbOpen
    /\ m_explorationCheck' = ~m_explorationCheck
    /\ UNCHANGED << files, m_dbPath, dbOpen, m_isIndexing, m_searchEdit, m_hybridCheck, m_mmrCheck,
                    resultsTable, pendingIndex, pendingSearch, initFrom, initLog, reranker, last,
                    searchVars >>

ToggleMmr ==
    /\ dbOpen
    /\ m_mmrCheck' = ~m_mmrCheck
    /\ UNCHANGED << files, m_dbPath, dbOpen, m_isIndexing, m_searchEdit, m_hybridCheck,
                    m_explorationCheck, resultsTable, pendingIndex, pendingSearch, initFrom,
                    initLog, reranker, last, searchVars >>

(* searchBtn: immediate keyword results, then GeminiApi::getEmbeddings,    *)
(* which answers a blank text at once with an empty embedding.             *)
SearchClicked(thread, tSearch, recencyFactor) ==
    /\ dbOpen
    /\ m_searchEdit # << >>
    /\ pendingSearch = << >>
    /\ LET ftsResults == ftsSearch(files[m_dbPath], m_searchEdit, SearchLimit)
           w1 == [Window EXCEPT !.m_isIndexing = FALSE,
                                !.last = [NoCall EXCEPT !.op = "search", !.query = m_searchEdit,
                                                        !.sparse = TRUE,
                                                        !.returned = ftsResults,
                                                        !.logsBefore = Len(files[m_dbPath].logs),
                                                        !.chunksBefore =
                                                            Cardinality(DOMAIN files[m_dbPath].embeddings)]]
           w2 == IF ftsResults = << >> THEN w1
                 ELSE updateResultsTable(w1, ftsResults, m_searchEdit)
       IN IF trimmed(m_searchEdit) = << >>
          THEN /\ \E w \in embeddingsReady(w2, QueryAsChunk(m_searchEdit), << >>, TRUE, thread,
                                           tSearch, recencyFactor, "ok") : Becomes(w)
               /\ UNCHANGED pendingSearch
          ELSE /\ Becomes(w2)
               /\ pendingSearch' = << m_searchEdit >>
    /\ UNCHANGED << m_dbPath, dbOpen, m_searchEdit, m_hybridCheck, m_explorationCheck, m_mmrCheck,
                    m_semanticCache, pendingIndex, initFrom, initLog >>

(* GeminiApi::onEmbeddingsReply for a chunk request: a non-empty           *)
(* embedding reaches the handler; when it stores the chunk and the queue   *)
(* is not exhausted, processNextChunk sends the next request.              *)
ChunkReply(chunk, embedding, done, thread, tSearch, recencyFactor, io) ==
    /\ dbOpen
    /\ pendingIndex
    /\ m_isIndexing => files[m_dbPath].seq < LibrarySize + MaxChunks
    /\ \E w \in embeddingsReady(Window, chunk, embedding, done, thread, tSearch, recencyFactor, io) :
          /\ Becomes(w)
          /\ pendingIndex' = (w.last.added /\ ~done)
    /\ UNCHANGED << m_dbPath, dbOpen, m_searchEdit, m_hybridCheck, m_explorationCheck, m_mmrCheck,
                    m_semanticCache, pendingSearch, initFrom, initLog >>

(* GeminiApi::onEmbeddingsReply for a query request. *)
QueryReply(embedding, done, thread, tSearch, recencyFactor) ==
    /\ dbOpen
    /\ pendingSearch # << >>
    /\ m_isIndexing => files[m_dbPath].seq < LibrarySize + MaxChunks
    /\ \E w \in embeddingsReady(Window, QueryAsChunk(Head(pendingSearch)), embedding, done,
                                thread, tSearch, recencyFactor, "ok") :
          /\ Becomes(w)
          /\ pendingIndex' = IF w.last.added THEN ~done ELSE pendingIndex
    /\ pendingSearch' = << >>
    /\ UNCHANGED << m_dbPath, dbOpen, m_searchEdit, m_hybridCheck, m_explorationCheck, m_mmrCheck,
                    m_semanticCache, initFrom, initLog >>

(* clearBtn, confirmed. *)
ClearClicked ==
    /\ dbOpen
    /\ files' = [files EXCEPT ![m_dbPath] = clear(@)]
    /\ resultsTable' = << >>
    /\ last' = [NoCall EXCEPT !.op = "clear"]
    /\ UNCHANGED << m_dbPath, dbOpen, m_isIndexing, m_searchEdit, m_hybridCheck,
                    m_explorationCheck, m_mmrCheck, pendingIndex, pendingSearch, initFrom, initLog, reranker,
                    searchVars >>

(* resultsTable cellDoubleClicked on a filled row. *)
CellDoubleClicked(row) ==
    /\ dbOpen
    /\ row \in 1..Len(resultsTable)
    /\ LET entryId == resultsTable[row].id
           isExp == resultsTable[row].isExploration
           db == files[m_dbPath]
       IN /\ entryId \in DOMAIN db.embeddings
               => db.embeddings[entryId].boost_factor < DefaultBoost + MaxClicks * BoostPerClick
          /\ files' = [files EXCEPT ![m_dbPath] = addInteraction(db, entryId, m_searchEdit, isExp)]
          /\ last' = [NoCall EXCEPT !.op = "addInteraction", !.entryId = entryId,
                                    !.isExploration = isExp, !.query = m_searchEdit,
                                    !.logsBefore = Len(db.logs)]
    /\ UNCHANGED << m_dbPath, dbOpen, windowVars, initFrom, initLog, searchVars >>

(* updateEngines: the three engines are set from the combos and their      *)
(* texts stored; a rerank model other than item 0 gets a new client, which *)
(* takes over the statistics stored under its name, while the client of    *)
(* before is destroyed under the futures that run on it.                   *)
updateEngines(w, index) ==
    LET d1 == setMetadata(setMetadata(w.db, "embed_engine", "Gemini-Embedding-001 (Cloud)"),
                          "reason_engine", "Gemini-1.5-Flash (Cloud)")
        savedMean == IF getMetadata(d1, ComboText(index) \o "_mean") = -1 THEN 0
                     ELSE getMetadata(d1, ComboText(index) \o "_mean")
        savedStd == IF getMetadata(d1, ComboText(index) \o "_std") = -1 THEN 0
                    ELSE getMetadata(d1, ComboText(index) \o "_std")
        client == IF index > 0 THEN loadStats(LocalRerankClient(index), savedMean, savedStd)
                  ELSE w.reranker.client
    IN [w EXCEPT !.db = setMetadata(d1, "rerank_engine", ComboText(index)),
                 !.reranker.combo = index,
                 !.reranker.jobs =
                     IF index > 0 THEN [k \in DOMAIN @ |-> [@[k] EXCEPT !.orphaned = TRUE]]
                     ELSE @,
                 !.reranker.client = client,
                 !.last = [NoCall EXCEPT !.op = "updateEngines",
                                         !.rerank = [NoTrace EXCEPT !.model = index,
                                                                    !.after = client]]]

(* discoveredModelsReady: the combos are filled and stand on item 0. *)
ModelsDiscovered ==
    /\ dbOpen
    /\ reranker.combo = -1
    /\ Becomes(updateEngines(Window, 0))
    /\ UNCHANGED << m_dbPath, dbOpen, m_searchEdit, m_hybridCheck, m_explorationCheck, m_mmrCheck,
                    m_semanticCache, pendingIndex, pendingSearch, initFrom, initLog >>

(* m_rerankCombo currentIndexChanged *)
SelectReranker(index) ==
    /\ dbOpen
    /\ reranker.combo \notin {-1, index}
    /\ Becomes(updateEngines(Window, index))
    /\ UNCHANGED << m_dbPath, dbOpen, m_searchEdit, m_hybridCheck, m_explorationCheck, m_mmrCheck,
                    m_semanticCache, pendingIndex, pendingSearch, initFrom, initLog >>

ToggleRerank ==
    /\ dbOpen
    /\ reranker' = [reranker EXCEPT !.check = ~@]
    /\ UNCHANGED << files, m_dbPath, dbOpen, m_isIndexing, m_searchEdit, m_hybridCheck,
                    m_explorationCheck, m_mmrCheck, resultsTable, pendingIndex, pendingSearch, initFrom,
                    initLog, last, searchVars >>

(* The future of rerankAsync runs LocalRerankClient::rerank on a pool      *)
(* thread, on the client that was current at the request.  When            *)
(* setRerankModel has destroyed that client meanwhile, the thread works on *)
(* freed memory: it finds the old members there, or those of the client    *)
(* that took the place.                                                    *)
RerankWorker(reply) ==
    /\ reranker.jobs # << >>
    /\ ~Head(reranker.jobs).done
    /\ LET job == Head(reranker.jobs)
           live == ~job.orphaned
       IN \E self \in (IF live THEN { reranker.client } ELSE { job.client, reranker.client }) :
            LET r == rerank(self, job.candidates, reply, 5)
            IN \E results \in r.results :
                 reranker' =
                   [reranker EXCEPT
                      !.client = IF self = @ THEN r.client ELSE @,
                      !.jobs = << [job EXCEPT !.done = TRUE, !.results = results,
                                              !.trace = [@ EXCEPT !.reply = reply,
                                                                  !.before = self,
                                                                  !.after = r.client,
                                                                  !.normalized = r.normalized,
                                                                  !.anomaly = r.anomaly,
                                                                  !.orphan = ~live]] >>
                               \o Tail(@)]
    /\ UNCHANGED << files, m_dbPath, dbOpen, m_isIndexing, m_searchEdit, m_hybridCheck,
                    m_explorationCheck, m_mmrCheck, resultsTable, pendingIndex, pendingSearch, initFrom,
                    initLog, last, searchVars >>

(* `rerankedResults.isEmpty() && !candidates.isEmpty()` *)
KeepsReranked(rerankedResults, candidates) == FALSE

FallsBackToCandidates(rerankedResults, candidates) ==
    rerankedResults = << >> /\ candidates # << >>

(* QFutureWatcher::finished in GeminiApi::rerank, with the handlers of     *)
(* rerankerStatsUpdated and rerankingReady it runs.                        *)
RerankFinished ==
    /\ dbOpen
    /\ reranker.jobs # << >>
    /\ Head(reranker.jobs).done
    /\ LET job == Head(reranker.jobs)
           rerankedResults ==
               [i \in 1..Len(job.results) |->
                  [(job.candidates[CHOOSE k \in 1..Len(job.candidates) :
                                      job.candidates[k].id = job.results[i].chunkId])
                     EXCEPT !.score = job.results[i].score,
                            !.rerankRank = job.results[i].originalRank]]
           name == ComboText(reranker.combo)
           w1 == [Window EXCEPT !.reranker.jobs = Tail(@),
                                !.last = [NoCall EXCEPT !.op = "rerankingReady",
                                                        !.query = job.query,
                                                        !.rerank = [job.trace EXCEPT !.reranked =
                                                                      rerankedResults # << >>]]]
       IN IF FallsBackToCandidates(rerankedResults, job.candidates)
          THEN Becomes(updateResultsTable(w1, job.candidates, m_searchEdit))
          ELSE Becomes(updateResultsTable(
                         [w1 EXCEPT !.db = setMetadata(
                                              setMetadata(@, name \o "_mean",
                                                          reranker.client.m_mean),
                                              name \o "_std", reranker.client.m_stdDev)],
                         rerankedResults, m_searchEdit))
    /\ UNCHANGED << m_dbPath, dbOpen, m_searchEdit, m_hybridCheck, m_explorationCheck, m_mmrCheck,
                    m_semanticCache, pendingIndex, pendingSearch, initFrom, initLog >>

(***************************************************************************)
(* Opening stored files of any schema version.                             *)
(***************************************************************************)
InitMig ==
    /\ files \in [Workspaces -> {FileAt(v) : v \in 0..MaxStoredVersion}]
    /\ m_dbPath = DefaultWorkspace
    /\ dbOpen = FALSE
    /\ initFrom = -1
    /\ initLog = << >>
    /\ WindowInit

NextMig ==
    \/ Startup /\ UNCHANGED steps
    \/ \E name \in Workspaces : SwitchWorkspace(name) /\ UNCHANGED steps

SpecMig == InitMig /\ [][NextMig]_vars

(***************************************************************************)
(* Indexing sessions on new workspaces: PDFs are indexed with embedding    *)
(* engines of two dimensions, queries are run densely or hybrid, the index *)
(* is cleared and the workspace switched.                                  *)
(***************************************************************************)
InitIndex ==
    /\ files = [name \in Workspaces |-> EmptyFile]
    /\ m_dbPath = DefaultWorkspace
    /\ dbOpen = FALSE
    /\ initFrom = -1
    /\ initLog = << >>
    /\ WindowInit

IndexQueries == { QueryCache, QueryBlank }

IndexVectors == { << 1 >>, << 1, 0 >> }

MaxIndexSteps == 7

NextIndex ==
    \/ Session(MaxIndexSteps) /\ Startup
    \/ Session(MaxIndexSteps) /\ \E name \in Workspaces : SwitchWorkspace(name)
    \/ Session(MaxIndexSteps) /\ SelectPdf
    \/ Session(MaxIndexSteps) /\ \E q \in IndexQueries : TypeQuery(q)
    \/ Session(MaxIndexSteps) /\ ToggleHybrid
    \/ Session(MaxIndexSteps) /\ SearchClicked(1, 100, 10)
    \/ Session(MaxIndexSteps)
         /\ \E embedding \in IndexVectors, done \in BOOLEAN :
               ChunkReply(ChunkA, embedding, done, 1, 100, 10, "ok")
    \/ Session(MaxIndexSteps)
         /\ \E embedding \in IndexVectors : QueryReply(embedding, TRUE, 1, 100, 10)
    \/ Session(MaxIndexSteps) /\ ClearClicked

SpecIndex == InitIndex /\ [][NextIndex]_vars

(***************************************************************************)
(* Query sessions on an indexed workspace, the hybrid box checked, under   *)
(* fast and slow retrievals.                                               *)
(***************************************************************************)
InitSearch ==
    /\ files = [name \in Workspaces |-> Library]
    /\ m_dbPath = DefaultWorkspace
    /\ dbOpen = FALSE
    /\ initFrom = -1
    /\ initLog = << >>
    /\ WindowInit

SearchQueries == { QueryCache, QueryCachePadded, QueryWhatIs, QuerySummary }

SearchVectors == { << 1, 0 >>, << 0, 1 >> }

MaxSearchSteps == 9

NextSearch ==
    \/ Session(MaxSearchSteps) /\ Startup
    \/ Session(MaxSearchSteps) /\ \E q \in SearchQueries : TypeQuery(q)
    \/ Session(MaxSearchSteps) /\ SearchClicked(1, 100, 10)
    \/ Session(MaxSearchSteps)
         /\ \E embedding \in SearchVectors, thread \in PoolThreads, tSearch \in Latencies :
               QueryReply(embedding, TRUE, thread, tSearch, 10)

SpecSearch == InitSearch /\ [][NextSearch]_vars

(***************************************************************************)
(* Sessions that click on results: an indexed default workspace next to a  *)
(* new one.                                                                *)
(***************************************************************************)
Init ==
    /\ files = [name \in Workspaces |-> IF name = DefaultWorkspace THEN Library ELSE EmptyFile]
    /\ m_dbPath = DefaultWorkspace
    /\ dbOpen = FALSE
    /\ initFrom = -1
    /\ initLog = << >>
    /\ WindowInit

MaxSteps == 7

Next ==
    \/ Session(MaxSteps) /\ Startup
    \/ Session(MaxSteps) /\ \E name \in Workspaces : SwitchWorkspace(name)
    \/ Session(MaxSteps) /\ SelectPdf
    \/ Session(MaxSteps) /\ TypeQuery(QueryCache)
    \/ Session(MaxSteps) /\ ToggleExploration
    \/ Session(MaxSteps) /\ SearchClicked(1, 100, 10)
    \/ Session(MaxSteps)
         /\ \E done \in BOOLEAN : ChunkReply(ChunkA, << 1, 0 >>, done, 1, 100, 10, "ok")
    \/ Session(MaxSteps)
         /\ \E recencyFactor \in Recencies :
               QueryReply(<< 1, 0 >>, TRUE, 1, 100, recencyFactor)
    \/ Session(MaxSteps) /\ ClearClicked
    \/ Session(MaxSteps) /\ \E row \in 1..SearchLimit : CellDoubleClicked(row)

Spec == Init /\ [][Next]_vars

(***************************************************************************)
(* Indexing sessions in which SQLite may refuse one of the INSERTs of      *)
(* addEntry.                                                               *)
(***************************************************************************)
MaxInsertSteps == 6

NextInsert ==
    \/ Session(MaxInsertSteps) /\ Startup
    \/ Session(MaxInsertSteps) /\ SelectPdf
    \/ Session(MaxInsertSteps)
         /\ \E chunk \in {ChunkA, ChunkB}, done \in BOOLEAN, io \in IoOutcomes :
               ChunkReply(chunk, << 1, 0 >>, done, 1, 100, 10, io)
    \/ Session(MaxInsertSteps) /\ ClearClicked

SpecInsert == InitIndex /\ [][NextInsert]_vars

(***************************************************************************)
(* Reranked query sessions: the workspace holds the statistics an earlier  *)
(* session stored for the first rerank model, the discovery finds the      *)
(* rerank models, and the scoring backend answers with errors or scores.   *)
(***************************************************************************)
(* Statistics of earlier sessions: those of a batch 0.35, 0.65 and those   *)
(* of a batch of equal scores 0.9.                                         *)
StoredStats == { << 500, 150 >>, << 900, 10 >> }

InitRerank ==
    /\ \E stats \in StoredStats :
          files = [name \in Workspaces |->
                     setMetadata(setMetadata(Library, ComboText(1) \o "_mean", stats[1]),
                                 ComboText(1) \o "_std", stats[2])]
    /\ m_dbPath = DefaultWorkspace
    /\ dbOpen = FALSE
    /\ initFrom = -1
    /\ initLog = << >>
    /\ WindowInit

RerankReplies ==
    { [kind |-> "transportError", scores |-> << >>],
      [kind |-> "malformedJson", scores |-> << >>],
      [kind |-> "noArray", scores |-> << >>],
      [kind |-> "scores", scores |-> << 80, 90, 100, 110, 120 >>],
      [kind |-> "scores", scores |-> << 490, 495, 500, 505, 510 >>],
      [kind |-> "scores", scores |-> << 480, 490, 510, 520, 2000 >>] }

MaxRerankSteps == 10

NextRerank ==
    \/ Session(MaxRerankSteps) /\ Startup
    \/ Session(MaxRerankSteps) /\ ModelsDiscovered
    \/ Session(MaxRerankSteps) /\ ~reranker.check /\ ToggleRerank
    \/ Session(MaxRerankSteps) /\ \E index \in {0} \cup RerankModels : SelectReranker(index)
    \/ Session(MaxRerankSteps) /\ TypeQuery(QueryCache)
    \/ Session(MaxRerankSteps) /\ reranker.jobs = << >> /\ SearchClicked(1, 100, 10)
    \/ Session(MaxRerankSteps) /\ reranker.jobs = << >> /\ QueryReply(<< 1, 0 >>, TRUE, 1, 100, 10)
    \/ Session(MaxRerankSteps) /\ \E reply \in RerankReplies : RerankWorker(reply)
    \/ Session(MaxRerankSteps) /\ RerankFinished

SpecRerank == InitRerank /\ [][NextRerank]_vars

(***************************************************************************)
(* The RRF fusion on its own: a chunk of some type and heading level at    *)
(* sparse rank kr (0: not in the sparse list) is fused at two dense ranks, *)
(* under each intent.                                                      *)
(***************************************************************************)
MaxFuseRank == 4

Intents == { "Definition", "Procedure", "Summary", "Example", "General" }

FuseChunkTypes == { "text", "definition", "summary", "list", "example" }

FuseHeadingLevels == 0..2

(* A list of MaxFuseRank results with the chunk at position rank and       *)
(* fillers elsewhere; no chunk when rank is 0.                             *)
FuseList(rank, chunk, fillerBase) ==
    [i \in 1..MaxFuseRank |->
       IF i = rank THEN chunk
       ELSE VectorEntry(fillerBase + i, Fixed(0), "d9", << >>, 0, "text", 100)]

(* The score the fusion gives the chunk met at dense rank sr and sparse    *)
(* rank kr.                                                                *)
FusedScore(intent, sr, kr, chunkType, headingLevel) ==
    LET chunk == VectorEntry(1, Fixed(0), "d1", << >>, headingLevel, chunkType, 100)
        fused == Fuse(FuseList(sr, chunk, 10), FuseList(kr, chunk, 20), intent)
    IN fused[RankIn(fused, 1)].score

InitFuse ==
    /\ files = [name \in Workspaces |-> Library]
    /\ m_dbPath = DefaultWorkspace
    /\ dbOpen = FALSE
    /\ initFrom = -1
    /\ initLog = << >>
    /\ WidgetsInit
    /\ \E intent \in Intents, kr \in 0..MaxFuseRank, chunkType \in FuseChunkTypes,
          headingLevel \in FuseHeadingLevels :
          last = [op |-> "none", intent |-> intent, keywordRank |-> kr,
                  chunkType |-> chunkType, headingLevel |-> headingLevel,
                  r1 |-> 0, r2 |-> 0, score1 |-> Fixed(0), score2 |-> Fixed(0)]

FuseTwice(r1, r2) ==
    /\ r1 < r2
    /\ last' = [last EXCEPT
                  !.op = "Fuse", !.r1 = r1, !.r2 = r2,
                  !.score1 = FusedScore(last.intent, r1, last.keywordRank, last.chunkType,
                                        last.headingLevel),
                  !.score2 = FusedScore(last.intent, r2, last.keywordRank, last.chunkType,
                                        last.headingLevel)]
    /\ UNCHANGED << files, m_dbPath, dbOpen, initFrom, initLog, windowVars, searchVars, steps >>

NextFuse == \E r1, r2 \in 1..MaxFuseRank : FuseTwice(r1, r2)

SpecFuse == InitFuse /\ [][NextFuse]_vars

(***************************************************************************)
(* The definition scenario: a workspace of the chunks A (a definition      *)
(* under a level-2 heading), C and B (plain text), indexed in this order,  *)
(* each holding the words of the query.  Against the query embedding       *)
(* << 1, 0 >> the cosine similarities rank B, A, C; the rows of the        *)
(* full-text index that hold the words what, is, a, cache come as A, C, B. *)
(***************************************************************************)
ScenarioA ==
    [text |-> << "w", "h", "a", "t", " ", "a", " ", "c", "a", "c", "h", "e",
                " ", "i", "s" >>,
     path |-> << "C", "h", "1", " ", ">", " ", "C", "a", "c", "h", "e",
                "s" >>,
     level |-> 2, type |-> "definition", doc |-> "d1"]

ScenarioC ==
    [text |-> << "w", "h", "a", "t", " ", "i", "s", " ", "a", " ", "c", "a",
                "c", "h", "e", " ", "l", "i", "n", "e" >>,
     path |-> << "C", "h", "1" >>,
     level |-> 1, type |-> "text", doc |-> "d1"]

ScenarioB ==
    [text |-> << "w", "h", "a", "t", " ", "i", "s", " ", "i", "n", " ", "a",
                " ", "c", "a", "c", "h", "e" >>,
     path |-> << "C", "h", "2" >>,
     level |-> 1, type |-> "text", doc |-> "d1"]

QueryWhatIsACache ==
    << "w", "h", "a", "t", " ", "i", "s", " ", "a", " ", "c", "a", "c",
       "h", "e", "?" >>

QueryWhatIsACacheWords ==
    << "w", "h", "a", "t", " ", "i", "s", " ", "a", " ", "c", "a", "c",
       "h", "e" >>

(* The ids AUTOINCREMENT gives the chunks. *)
ScenarioIds == [A |-> 1, C |-> 2, B |-> 3]

ScenarioFile ==
    LET a == addEntry(init(EmptyFile).db, TRUE, ScenarioA, << 10, 5 >>, "ok").db
        c == addEntry(a, TRUE, ScenarioC, << 10, 10 >>, "ok").db
    IN addEntry(c, TRUE, ScenarioB, << 10, 1 >>, "ok").db

InitScenario ==
    /\ files = [name \in Workspaces |-> ScenarioFile]
    /\ m_dbPath = DefaultWorkspace
    /\ dbOpen = FALSE
    /\ initFrom = -1
    /\ initLog = << >>
    /\ WindowInit

ScenarioQueries == { QueryWhatIsACache, QueryWhatIsACacheWords }

ScenarioVectors == { << 1, 0 >>, << 0, 1 >> }

MaxScenarioSteps == 7

NextScenario ==
    \/ Session(MaxScenarioSteps) /\ Startup
    \/ Session(MaxScenarioSteps) /\ \E q \in ScenarioQueries : TypeQuery(q)
    \/ Session(MaxScenarioSteps) /\ SearchClicked(1, 100, 10)
    \/ Session(MaxScenarioSteps)
         /\ \E embedding \in ScenarioVectors, thread \in PoolThreads :
               QueryReply(embedding, TRUE, thread, 100, 10)

SpecScenario == InitScenario /\ [][NextScenario]_vars

(***************************************************************************)
(* Embedding blobs.  A float is its 32-bit pattern, read as a signed       *)
(* 32-bit integer; a blob is a sequence of bytes 0..255.                   *)
(***************************************************************************)
(* 0.0, the smallest denormal, 1.0, a quiet NaN, -1.0 and the NaN of all   *)
(* bits set.                                                               *)
FloatPatterns == { 0, 1, 1065353216, 2143289344, -1082130432, -1 }

MaxBlobLen == 3

(* The four bytes of a float in memory, lowest address first. *)
FloatBytes(x) ==
    << x % 256, (x \div 256) % 256, (x \div 65536) % 256, (x \div 16777216) % 256 >>

(* The float four bytes in memory are. *)
BytesFloat(b) ==
    b[1] + 256 * b[2] + 65536 * b[3] + 16777216 * (IF b[4] >= 128 THEN b[4] - 256 ELSE b[4])

(* vectorToBlob with a length byte in front *)
vectorToBlobWithHeader(vec) ==
    << Len(vec) >> \o [k \in 1..(4 * Len(vec)) |-> FloatBytes(vec[((k - 1) \div 4) + 1])[((k - 1) % 4) + 1]]

(* VectorStore::vectorToBlob: blob.append(vec.data(), vec.size() * sizeof(float)) *)
vectorToBlob(vec) ==
    [k \in 1..(4 * Len(vec)) |-> FloatBytes(vec[((k - 1) \div 4) + 1])[((k - 1) % 4) + 1]]

(* VectorStore::blobToVector: count = blob.size() / sizeof(float), the     *)
(* bytes copied over the count floats.                                     *)
blobToVector(blob) ==
    [i \in 1..(Len(blob) \div 4) |-> BytesFloat(SubSeq(blob, 4 * i - 3, 4 * i))]

InitBlob ==
    /\ files = [name \in Workspaces |-> EmptyFile]
    /\ m_dbPath = DefaultWorkspace
    /\ dbOpen = FALSE
    /\ initFrom = -1
    /\ initLog = << >>
    /\ WidgetsInit
    /\ \E n \in 0..MaxBlobLen : \E vec \in [1..n -> FloatPatterns] :
          last = [op |-> "none", vec |-> vec, blob |-> << >>, back |-> << >>]

(* addEntry binds vectorToBlob(embedding) *)
StoreBlob ==
    /\ last.op = "none"
    /\ last' = [last EXCEPT !.op = "vectorToBlob", !.blob = vectorToBlob(last.vec)]
    /\ UNCHANGED << files, m_dbPath, dbOpen, initFrom, initLog, windowVars, searchVars, steps >>

(* search reads blobToVector(query.value(2).toByteArray()) *)
LoadBlob ==
    /\ last.op = "vectorToBlob"
    /\ last' = [last EXCEPT !.op = "blobToVector", !.back = blobToVector(last.blob)]
    /\ UNCHANGED << files, m_dbPath, dbOpen, initFrom, initLog, windowVars, searchVars, steps >>

NextBlob ==
    \/ StoreBlob
    \/ LoadBlob

SpecBlob == InitBlob /\ [][NextBlob]_vars

(***************************************************************************)
(* Query sessions with the exploration box: General, Definition and        *)
(* Summary queries on an indexed workspace, clicks on the first rows.      *)
(***************************************************************************)
ExploreQueries == { QueryCache, QueryWhatIs, QuerySummary }

MaxExploreSteps == 9

NextExplore ==
    \/ Session(MaxExploreSteps) /\ Startup
    \/ Session(MaxExploreSteps) /\ \E q \in ExploreQueries : TypeQuery(q)
    \/ Session(MaxExploreSteps) /\ ToggleExploration
    \/ Session(MaxExploreSteps) /\ SearchClicked(1, 100, 10)
    \/ Session(MaxExploreSteps)
         /\ \E embedding \in SearchVectors : QueryReply(embedding, TRUE, 1, 100, 10)
    \/ Session(MaxExploreSteps) /\ CellDoubleClicked(1)

SpecExplore == InitSearch /\ [][NextExplore]_vars

(***************************************************************************)
(* Sessions over several runs of the program: the window is closed and     *)
(* the program started again on the same workspace files.  The queries are *)
(* typed in their canonical form.                                          *)
(***************************************************************************)
(* The process ends: the store closes its connection, the caches, the      *)
(* static avgLatency and the widgets are gone.  The files stay, and so     *)
(* does the history of the misses.                                         *)
Restart ==
    /\ dbOpen
    /\ dbOpen' = FALSE
    /\ m_dbPath' = DefaultWorkspace
    /\ initFrom' = -1
    /\ initLog' = << >>
    /\ m_isIndexing' = FALSE
    /\ m_searchEdit' = << >>
    /\ m_hybridCheck' = TRUE
    /\ m_explorationCheck' = FALSE
    /\ m_mmrCheck' = FALSE
    /\ resultsTable' = << >>
    /\ m_queryCache' = << >>
    /\ m_semanticCache' = << >>
    /\ avgLatency' = 100
    /\ m_avgDocEntropy' = 0
    /\ m_sessionSearchCount' = 0
    /\ ftsConn' = [t \in PoolThreads |-> 0]
    /\ pendingIndex' = FALSE
    /\ pendingSearch' = << >>
    /\ reranker' = [check |-> FALSE, combo |-> -1, client |-> NoClient, jobs |-> << >>]
    /\ last' = [NoCall EXCEPT !.op = "quit"]
    /\ UNCHANGED << files, missLog >>

SessionQueries == { QueryCache, QuerySummary }

MaxSessionSteps == 9

NextSessions ==
    \/ Session(MaxSessionSteps) /\ Startup
    \/ Session(MaxSessionSteps) /\ \E q \in SessionQueries : TypeQuery(q)
    \/ Session(MaxSessionSteps) /\ SearchClicked(1, 100, 10)
    \/ Session(MaxSessionSteps)
         /\ \E embedding \in SearchVectors : QueryReply(embedding, TRUE, 1, 100, 10)
    \/ Session(MaxSessionSteps) /\ Restart

SpecSessions == InitSearch /\ [][NextSessions]_vars

(***************************************************************************)
(* The intent classifier on its own: queries of one or two pieces, among   *)
(* them phrases of every category, in capitals, and inside longer words.   *)
(***************************************************************************)
IntentPieces ==
    { << "W", "h", "a", "t", " ", "i", "s" >>,
      << "d", "e", "f", "i", "n", "e" >>,
      << "r", "e", "d", "e", "f", "i", "n", "e" >>,
      << "d", "i", "l", "e", "m", "m", "a" >>,
      << "h", "o", "w", " ", "t", "o" >>,
      << "p", "r", "o", "c", "e", "s", "s", " ", "o", "f" >>,
      << "S", "u", "m", "m", "a", "r", "y" >>,
      << "o", "v", "e", "r", "v", "i", "e", "w" >>,
      << "e", "x", "a", "m", "p", "l", "e" >>,
      << "e", "x", "a", "m", "p", "l", "e", "s" >>,
      << "c", "a", "c", "h", "e" >> }

IntentQueries ==
    IntentPieces \cup { a \o << " " >> \o b : a, b \in IntentPieces }

InitIntent ==
    /\ files = [name \in Workspaces |-> EmptyFile]
    /\ m_dbPath = DefaultWorkspace
    /\ dbOpen = FALSE
    /\ initFrom = -1
    /\ initLog = << >>
    /\ WidgetsInit
    /\ \E q \in IntentQueries : last = [op |-> "none", query |-> q, intent |-> ""]

DetectIntent ==
    /\ last.op = "none"
    /\ last' = [last EXCEPT !.op = "detectIntent", !.intent = detectIntent(last.query)]
    /\ UNCHANGED << files, m_dbPath, dbOpen, initFrom, initLog, windowVars, searchVars, steps >>

NextIntent == DetectIntent

SpecIntent == InitIntent /\ [][NextIntent]_vars

(***************************************************************************)
(* The calibration of one rerank client over a run of batches: a new       *)
(* client, or one that loaded the statistics of an earlier session, scores *)
(* the same five candidates again and again.                               *)
(***************************************************************************)
CalibrationBatches ==
    { << 80, 90, 100, 110, 120 >>, << 490, 495, 500, 505, 510 >>,
      << 480, 490, 510, 520, 2000 >> }

CalibrationCandidates == [i \in 1..5 |-> [id |-> i]]

MaxBatches == 7

InitCalibrate ==
    /\ files = [name \in Workspaces |-> EmptyFile]
    /\ m_dbPath = DefaultWorkspace
    /\ dbOpen = FALSE
    /\ initFrom = -1
    /\ initLog = << >>
    /\ WidgetsInit
    /\ \E c \in { LocalRerankClient(1) }
                 \cup { loadStats(LocalRerankClient(1), st[1], st[2]) : st \in StoredStats } :
          last = [op |-> "none", before |-> c, scores |-> << >>, client |-> c,
                  anomaly |-> FALSE]

(* LocalRerankClient::rerank as far as the statistics go *)
Calibrate(scores) ==
    LET r == rerank(last.client, CalibrationCandidates, [kind |-> "scores", scores |-> scores], 5)
    IN /\ last' = [op |-> "rerank", before |-> last.client, scores |-> scores,
                   client |-> r.client, anomaly |-> r.anomaly]
       /\ UNCHANGED << files, m_dbPath, dbOpen, initFrom, initLog, windowVars, searchVars >>

NextCalibrate == \E scores \in CalibrationBatches : Session(MaxBatches) /\ Calibrate(scores)

SpecCalibrate == InitCalibrate /\ [][NextCalibrate]_vars

(***************************************************************************)
(* Searches with the exploration box and a reranker: the list the search   *)
(* returns, probe included, is what the reranker scores.                   *)
(***************************************************************************)
MaxProbeSteps == 11

ScoreReplies == { reply \in RerankReplies : reply.kind = "scores" }

NextExploreRerank ==
    \/ Session(MaxProbeSteps) /\ Startup
    \/ Session(MaxProbeSteps) /\ ModelsDiscovered
    \/ Session(MaxProbeSteps) /\ reranker.check /\ SelectReranker(1)
    \/ Session(MaxProbeSteps) /\ ~reranker.check /\ ToggleRerank
    \/ Session(MaxProbeSteps) /\ reranker.combo = 1 /\ ~m_explorationCheck /\ ToggleExploration
    \/ Session(MaxProbeSteps) /\ m_searchEdit = << >> /\ TypeQuery(QuerySummary)
    \/ Session(MaxProbeSteps) /\ reranker.combo = 1 /\ SearchClicked(1, 100, 10)
    \/ Session(MaxProbeSteps)
         /\ \E embedding \in SearchVectors : QueryReply(embedding, TRUE, 1, 100, 10)
    \/ Session(MaxProbeSteps) /\ \E reply \in ScoreReplies : RerankWorker(reply)
    \/ Session(MaxProbeSteps) /\ RerankFinished

SpecExploreRerank == InitSearch /\ [][NextExploreRerank]_vars

(***************************************************************************)
(* Searches with the MMR and the exploration box.                          *)
(***************************************************************************)
DiverseQueries == { QueryCache, QueryWhatIs, QuerySummary }

MaxDiverseSteps == 8

NextDiverse ==
    \/ Session(MaxDiverseSteps) /\ Startup
    \/ Session(MaxDiverseSteps) /\ \E q \in DiverseQueries : TypeQuery(q)
    \/ Session(MaxDiverseSteps) /\ ToggleMmr
    \/ Session(MaxDiverseSteps) /\ ToggleExploration
    \/ Session(MaxDiverseSteps) /\ SearchClicked(1, 100, 10)
    \/ Session(MaxDiverseSteps)
         /\ \E embedding \in SearchVectors : QueryReply(embedding, TRUE, 1, 100, 10)

SpecDiverse == InitSearch /\ [][NextDiverse]_vars

(***************************************************************************)
(* VectorStore::hybridSearch called on the library with options of any     *)
(* limit, as the first search of a process.                                *)
(***************************************************************************)
CoreLimits == { 1, 2, 5 }

InitCore ==
    /\ files = [name \in Workspaces |-> Library]
    /\ m_dbPath = DefaultWorkspace
    /\ dbOpen = TRUE
    /\ initFrom = Library.user_version
    /\ initLog = init(Library).log
    /\ WidgetsInit
    /\ \E limit \in CoreLimits, q \in DiverseQueries, embedding \in SearchVectors,
          enableExploration \in BOOLEAN, experimentalMmr \in BOOLEAN :
          last = [op |-> "none", query |-> q, embedding |-> embedding,
                  options |-> SearchOptions(limit, enableExploration, experimentalMmr),
                  returned |-> << >>, audit |-> NoAudit, logsBefore |-> 0, logsAfter |-> 0]

CallHybridSearch ==
    /\ last.op = "none"
    /\ \E out \in hybridSearch(files[m_dbPath], files[m_dbPath], m_queryCache, m_semanticCache,
                                avgLatency, [m_avgDocEntropy |-> m_avgDocEntropy,
                                             m_sessionSearchCount |-> m_sessionSearchCount],
                                last.query, last.embedding, last.options, 100, 10) :
          /\ last' = [last EXCEPT !.op = "hybridSearch", !.returned = out.results,
                                  !.audit = out.audit,
                                  !.logsBefore = Len(files[m_dbPath].logs),
                                  !.logsAfter = Len(out.db.logs)]
          /\ files' = [files EXCEPT ![m_dbPath] = out.db]
          /\ m_queryCache' = out.cache
          /\ avgLatency' = out.avgLatency
          /\ m_avgDocEntropy' = out.m_avgDocEntropy
          /\ m_sessionSearchCount' = out.m_sessionSearchCount
    /\ UNCHANGED << m_dbPath, dbOpen, initFrom, initLog, windowVars, m_semanticCache, ftsConn,
                    missLog, steps >>

NextCore == CallHybridSearch

SpecCore == InitCore /\ [][NextCore]_vars

(***************************************************************************)
(* Query sessions without end: a retrieval may be slow until the latency   *)
(* average is critical, from then on every retrieval is fast.  The event   *)
(* loop keeps running handlers.                                            *)
(***************************************************************************)
FastLatency == 100

LatencyQueries == { QueryCache, QueryWhatIs, QuerySummary }

FastOnceCritical(tSearch) == tSearch <= FastLatency \/ avgLatency <= CriticalLatencyLimit

LatencyReply ==
    \E tSearch \in Latencies :
       FastOnceCritical(tSearch) /\ QueryReply(<< 1, 0 >>, TRUE, 1, tSearch, 10)

NextLatency ==
    \/ Startup /\ UNCHANGED steps
    \/ (\E q \in LatencyQueries : TypeQuery(q)) /\ UNCHANGED steps
    \/ SearchClicked(1, FastLatency, 10) /\ UNCHANGED steps
    \/ LatencyReply /\ UNCHANGED steps

SpecLatency == InitSearch /\ [][NextLatency]_vars /\ WF_vars(NextLatency)

(***************************************************************************)
(* Properties.                                                             *)
(***************************************************************************)
Current == files[m_dbPath]

(* C1: a chunk's boost_factor changes only in a step that runs             *)
(* addInteraction with isExploration false for that chunk's id on the open *)
(* workspace, and then by exactly +0.1.                                    *)
C1_BoostOnlyByClick ==
    [][\A name \in Workspaces :
         \A id \in (DOMAIN files[name].embeddings) \cap (DOMAIN files'[name].embeddings) :
            files'[name].embeddings[id].boost_factor # files[name].embeddings[id].boost_factor
            => /\ last'.op = "addInteraction"
               /\ ~last'.isExploration
               /\ last'.entryId = id
               /\ name = m_dbPath
               /\ files'[name].embeddings[id].boost_factor
                    = files[name].embeddings[id].boost_factor + 1]_vars

(* A click on a non-exploration row has raised that chunk's boost. *)
C1_Witness ==
    /\ last.op = "addInteraction"
    /\ ~last.isExploration
    /\ last.entryId \in DOMAIN Current.embeddings
    /\ Current.embeddings[last.entryId].boost_factor = DefaultBoost + 1

(* C2 as stated: in every workspace the full-text index holds a row with   *)
(* rowid i exactly when the chunk table holds a row with id i.             *)
C2_FtsMirrorsChunks ==
    \A name \in Workspaces : DOMAIN files[name].fts = DOMAIN files[name].embeddings

C4_NoMismatchedSearch ==
    (last.op = "embeddingsReady" /\ ~last.indexing /\ last.regDim > 0
       /\ Len(last.embedding) # last.regDim)
    => (last.guardrail /\ ~last.dense /\ ~last.sparse /\ ~last.hybrid)

(* A query embedding of the wrong length was answered in search mode. *)
C4_Witness ==
    /\ last.op = "embeddingsReady"
    /\ ~last.indexing
    /\ last.guardrail
    /\ last.regDim > 0
    /\ Len(last.embedding) # last.regDim
    /\ DOMAIN Current.embeddings # {}

(* C5 as stated: once a call for a canonical query text has completed as a *)
(* cache miss, a later call with that canonical text returns the list of   *)
(* that miss and runs neither the dense nor the sparse search.  (The       *)
(* bounds keep the cache below its capacity: nothing is evicted.)          *)
C5_RepeatAfterAnyMiss ==
    (last.op = "embeddingsReady" /\ last.hybrid /\ last.priorMiss)
    => (last.path = "exact" /\ resultsTable = last.priorResults /\ ~last.dense /\ ~last.sparse)

(* C5 amended: once a call for a canonical query text has completed as a   *)
(* cache miss that ran the full retrieval (it was not answered by the      *)
(* critical-latency bypass), a later call with that canonical text returns *)
(* the list of that miss and runs neither the dense nor the sparse search. *)
C5_RepeatAfterCachedMiss ==
    (last.op = "embeddingsReady" /\ last.hybrid /\ last.priorCached)
    => (last.path = "exact" /\ resultsTable = last.priorResults /\ ~last.dense /\ ~last.sparse)

(* A query differing from a cached one in case and padding was answered    *)
(* with the cached, non-empty list.                                        *)
C5_Witness ==
    /\ last.op = "embeddingsReady"
    /\ last.hybrid
    /\ last.priorCached
    /\ last.query = QueryCachePadded
    /\ resultsTable # << >>
    /\ \E e \in missLog : e.key = QueryCache /\ e.results = resultsTable

(* C6 as stated: a call whose embedding has cosine > 0.95 with the         *)
(* embedding of an earlier, cached query of another canonical text returns *)
(* that query's list and runs neither the dense nor the sparse search.     *)
C6_SemanticHit ==
    (last.op = "embeddingsReady" /\ last.hybrid /\ ~last.priorCached /\ last.semanticPrior # {})
    => (resultsTable \in last.semanticPrior /\ ~last.dense /\ ~last.sparse)

(* C7: a cache miss that starts with avgLatency > 4000 for a query whose   *)
(* intent is not Summary runs no dense scan and returns only rows the      *)
(* full-text index matches, each with score 0.5.                           *)
C7_CriticalBypassSparseOnly ==
    (last.op = "embeddingsReady" /\ last.hybrid /\ last.path \notin {"exact", "semantic"}
       /\ last.latBefore > 4000 /\ detectIntent(last.query) # "Summary")
    => /\ ~last.dense
       /\ \A i \in 1..Len(resultsTable) :
             /\ resultsTable[i].score = Fixed(ScoreUnit \div 2)
             /\ resultsTable[i].semanticRank = 0
             /\ resultsTable[i].id \in DOMAIN Current.fts
             /\ Words(last.query) \subseteq Current.fts[resultsTable[i].id]

(* The bypass answered a query with a non-empty list. *)
C7_Witness ==
    /\ last.op = "embeddingsReady"
    /\ last.hybrid
    /\ last.path = "critical"
    /\ last.latBefore > 4000
    /\ resultsTable # << >>

(* C8: init on a file of stored version v runs exactly the migration       *)
(* blocks numbered above v, in increasing order, each followed by the      *)
(* write of its number, and leaves the highest migration number stored.    *)
C8_MigrationsInOrder ==
    initFrom # -1 =>
       LET due == { n \in Range(MigrationNumbers) : n > initFrom }
           at == { k \in 1..Len(initLog) : initLog[k].op = "PRAGMA" }
           from(k) == IF \E j \in at : j < k THEN SetMax({ j \in at : j < k }) + 1 ELSE 1
       IN /\ { initLog[k].version : k \in at } = due
          /\ Cardinality(at) = Cardinality(due)
          /\ \A j, k \in at : j < k => initLog[j].version < initLog[k].version
          /\ \A k \in at : SubSeq(initLog, from(k), k - 1) = MigrationSql(initLog[k].version)
          /\ initLog # << >> => Len(initLog) \in at
          /\ Current.user_version = 15

(* A file stored at version 7 was brought to version 15. *)
C8_Witness ==
    /\ initFrom = 7
    /\ initLog # << >>
    /\ Current.user_version = 15

(* C9 as stated: once init has run, retrieval_logs has the columns         *)
(* mmr_penalty, is_exploration, rank_delta and stability.                  *)
C9_LogColumnsExist ==
    dbOpen => {"mmr_penalty", "is_exploration", "rank_delta", "stability"}
                 \subseteq Current.cols["retrieval_logs"]

(* C10 as stated: an addInteraction call appends exactly one row to        *)
(* retrieval_logs, whose is_exploration equals the call's flag.            *)
C10_InteractionLogged ==
    last.op = "addInteraction"
    => /\ Len(Current.logs) = last.logsBefore + 1
       /\ Current.logs[Len(Current.logs)].is_exploration = (IF last.isExploration THEN 1 ELSE 0)

(* C11 as stated: a hybridSearch cache miss that went through fusion and   *)
(* returned a non-empty list leaves exactly one more row in                *)
(* retrieval_logs, and that row records final rank 1, the top result's     *)
(* semantic rank minus 1 as rank delta, the MMR penalty total and the      *)
(* stability score of the query.                                           *)
C11_FusedQueryLogged ==
    (last.op = "embeddingsReady" /\ last.hybrid /\ last.path = "full" /\ last.returned # << >>)
    => /\ Len(Current.logs) = last.logsBefore + 1
       /\ LET row == Current.logs[Len(Current.logs)]
          IN /\ row.final_rank = 1
             /\ row.rank_delta = last.returned[1].semanticRank - 1
             /\ row.mmr_penalty = last.audit.mmrPenaltyTotal
             /\ row.mmr_decay = last.audit.queryStabilityScore

(* C12 as stated: a dense, sparse or hybrid search on a workspace without  *)
(* chunks returns the empty list and leaves the number of retrieval_logs   *)
(* rows as it was.                                                         *)
C12_EmptyStoreEmptyResult ==
    (/\ last.op \in {"search", "embeddingsReady"}
     /\ (last.dense \/ last.sparse \/ last.hybrid)
     /\ last.chunksBefore = 0)
    => (last.returned = << >> /\ Len(Current.logs) = last.logsBefore)

(* C13 as stated: when an addEntry call returns, the chunk row and its     *)
(* full-text row either both exist or both do not, whichever INSERT        *)
(* failed; a call in which an INSERT failed returns false and leaves the   *)
(* workspace file as it was.                                               *)
C13_AddEntryAtomic ==
    [][(last'.op = "embeddingsReady" /\ last'.added /\ last' # last)
       => LET lastId == files[m_dbPath].seq + 1
              after == files'[m_dbPath]
          IN /\ (lastId \in DOMAIN after.embeddings) <=> (lastId \in DOMAIN after.fts)
             /\ lastId \in DOMAIN after.embeddings <=> last'.addOk
             /\ ~last'.addOk => files' = files]_vars

(* The replies with which the scoring backend fails. *)
BackendFailures == { "transportError", "malformedJson", "noArray" }

(* C14: after a rerank whose backend failed with a transport error,        *)
(* malformed JSON or a reply without an array, rerankingReady delivers     *)
(* exactly the candidate list that was passed to rerank, same order and    *)
(* scores, and m_mean, m_stdDev and m_sampleCount of the client the worker *)
(* ran on are what they were.                                              *)
C14_FailureKeepsCandidates ==
    (last.op = "rerankingReady" /\ last.rerank.reply.kind \in BackendFailures)
    => /\ resultsTable = last.rerank.candidates
       /\ last.rerank.after = last.rerank.before

(* A malformed reply has ended a rerank of a non-empty candidate list on a *)
(* client with loaded statistics.                                          *)
C14_Witness ==
    /\ last.op = "rerankingReady"
    /\ last.rerank.reply.kind = "malformedJson"
    /\ last.rerank.candidates # << >>
    /\ last.rerank.before.m_sampleCount = 10
    /\ resultsTable = last.rerank.candidates

(* C15 as stated: after a rerank that was answered with scores, no         *)
(* candidate that normalize rejected (|z| > 5 against the statistics of    *)
(* the batch) is in the list rerankingReady delivers, and every delivered  *)
(* entry carries the normalized score of its candidate, strictly between 0 *)
(* and 1.                                                                  *)
C15_OutliersNeverDelivered ==
    (last.op = "rerankingReady" /\ last.rerank.reply.kind = "scores")
    => \A i \in DOMAIN resultsTable :
          LET id == resultsTable[i].id
              n == last.rerank.normalized
          IN /\ id \in DOMAIN n
             /\ n[id] # -1
             /\ n[id] > 0 /\ n[id] < 1000
             /\ resultsTable[i].score = Fixed(n[id] * (ScoreUnit \div 1000))

(* C16 as stated: a client seeded by loadStats with mean 0.5 and standard  *)
(* deviation 0.15 that scores a non-frozen batch of mean 0.1 leaves the    *)
(* batch with the drift reset done: the mean is the batch mean 0.1 and the *)
(* samples are counted from 0 again (1 after the batch).                   *)
C16_DriftResetOnFirstBatch ==
    (/\ last.op = "rerankingReady"
     /\ last.rerank.reply.kind = "scores"
     /\ last.rerank.before.m_mean = 500
     /\ last.rerank.before.m_stdDev = 150
     /\ last.rerank.before.m_sampleCount = 10
     /\ checkConsistency(last.rerank.reply.scores)
     /\ Sum(last.rerank.reply.scores) = 100 * Len(last.rerank.reply.scores))
    => /\ last.rerank.after.m_mean = 100
       /\ last.rerank.after.m_sampleCount <= 1

(* C17 as stated: after a rerank by model M that delivered a reranked      *)
(* list, the workspace metadata holds under "<M>_mean" and "<M>_std" the   *)
(* mean and standard deviation of the client that scored the batch,        *)
(* whatever was selected between the request and its completion; and a     *)
(* selection of a model with a persisted standard deviation above 0 leaves *)
(* a client with exactly the persisted values and more than 5 samples.     *)
C17_StatsSavedUnderOwnKeys ==
    /\ (last.op = "rerankingReady" /\ last.rerank.reranked)
       => LET name == ComboText(last.rerank.model)
          IN /\ getMetadata(Current, name \o "_mean") = last.rerank.after.m_mean
             /\ getMetadata(Current, name \o "_std") = last.rerank.after.m_stdDev
    /\ (/\ last.op = "updateEngines"
        /\ last.rerank.model > 0
        /\ getMetadata(Current, ComboText(last.rerank.model) \o "_std") > 0)
       => LET name == ComboText(last.rerank.model)
          IN /\ last.rerank.after.m_mean = getMetadata(Current, name \o "_mean")
             /\ last.rerank.after.m_stdDev = getMetadata(Current, name \o "_std")
             /\ last.rerank.after.m_sampleCount > 5

(* The multiple of limit the spec gives for an intent. *)
IntentFactor(intent) ==
    IF intent = "Summary" THEN 6 ELSE IF intent \in {"Definition", "Procedure"} THEN 3 ELSE 4

(* A hybridSearch call that missed the exact and the semantic cache. *)
HybridCacheMiss ==
    last.op = "embeddingsReady" /\ last.hybrid /\ last.path \in {"full", "critical"}

IdsOf(list) == [i \in 1..Len(list) |-> list[i].id]

(* The dense ranking of the open workspace for the embedding of the last   *)
(* call is B, A, C, and its full-text rows with the words of the query     *)
(* come as A, C, B.                                                        *)
ScenarioRankings ==
    /\ \A l \in search(Current, last.embedding, 3, 10) :
          IdsOf(l) = << ScenarioIds.B, ScenarioIds.A, ScenarioIds.C >>
    /\ IdsOf(ftsSearch(Current, QueryWhatIsACacheWords, 3))
         = << ScenarioIds.A, ScenarioIds.C, ScenarioIds.B >>

(* C19 as stated: in the workspace of the chunks A (definition, level 2),  *)
(* B and C (text), with dense ranking [B, A, C] and sparse ranking         *)
(* [A, C, B], hybridSearch for "what is a cache?" returns A first.         *)
C19_DefinitionFirst ==
    (/\ last.op = "embeddingsReady"
     /\ last.hybrid
     /\ last.query = QueryWhatIsACache
     /\ ScenarioRankings)
    => (last.returned # << >> /\ last.returned[1].id = ScenarioIds.A)

(* C20: for every intent, with sparse rank, chunk type and heading level   *)
(* held fixed, the fused score at dense rank r1 is at least the fused      *)
(* score at a dense rank r2 > r1.                                          *)
C20_FusedScoreMonotone ==
    (last.op = "Fuse" /\ last.r1 < last.r2) => last.score1.num >= last.score2.num

(* A summary chunk under a level-1 heading, third in the sparse list, has  *)
(* been fused for a Summary query at dense ranks 1 and 4; rank 1 scored    *)
(* higher.                                                                 *)
C20_Witness ==
    /\ last.op = "Fuse"
    /\ last.intent = "Summary" /\ last.chunkType = "summary" /\ last.headingLevel = 1
    /\ last.keywordRank = 3
    /\ last.r1 = 1 /\ last.r2 = 4
    /\ last.score1.num > last.score2.num

(* C21: the blob of a float vector has exactly 4 bytes per element and     *)
(* nothing else, and reading it back gives a vector of the same length     *)
(* with the same 32-bit pattern in every position.                         *)
C21_BlobRoundTrip ==
    /\ last.op \in {"vectorToBlob", "blobToVector"}
       => /\ Len(last.blob) = 4 * Len(last.vec)
          /\ \A i \in 1..Len(last.vec) :
                SubSeq(last.blob, 4 * i - 3, 4 * i) = FloatBytes(last.vec[i])
    /\ last.op = "blobToVector"
       => /\ Len(last.back) = Len(last.vec)
          /\ \A i \in 1..Len(last.vec) : last.back[i] = last.vec[i]

(* A vector of three floats, a NaN and a negative among them, has been     *)
(* stored in 12 bytes and read back.                                       *)
C21_Witness ==
    /\ last.op = "blobToVector"
    /\ last.vec = << 2143289344, -1082130432, 1 >>
    /\ Len(last.blob) = 12
    /\ last.back = last.vec

(* The positions of the entries flagged isExploration in the list the last *)
(* hybridSearch call returned.                                             *)
ProbesReturned ==
    IF last.op = "embeddingsReady" /\ last.hybrid
    THEN { i \in 1..Len(last.returned) : last.returned[i].isExploration }
    ELSE {}

(* C22 as stated: a list returned by hybridSearch holds an entry flagged   *)
(* isExploration only if, for that call, options.enableExploration was    *)
(* set, the stability was at least 0.6, the intent was neither Definition  *)
(* nor Procedure, and the fused list was not empty (its top is in front).  *)
C22_ProbeOnlyWhenEligible ==
    ProbesReturned # {}
    => /\ last.enableExploration
       /\ last.audit.queryStabilityScore >= 600
       /\ detectIntent(last.query) \notin {"Definition", "Procedure"}
       /\ ~last.returned[1].isExploration

(* A call that went through the fusion and returned a flagged entry. *)
ProbeInjected == last.path = "full" /\ ProbesReturned # {}

FusedAfterUnstableRun ==
    /\ last.op = "embeddingsReady" /\ last.hybrid /\ last.path = "full"
    /\ last.query = Canonical(last.query)
    /\ last.priorCached
    /\ last.priorResults # << >>
    /\ \A i \in 1..Len(last.priorResults) : ~last.priorResults[i].isExploration
    /\ last.priorResults[1].semanticRank # 1

(* C24 as stated: the stability of a query is max(0, 1 - avg/5) over the   *)
(* |rank_delta| of its most recent non-exploration log rows.  The latest   *)
(* of them having a rank delta other than 0, the average is above 0 and    *)
(* the stability below 1.0.                                                *)
C24_StabilityFromHistory ==
    FusedAfterUnstableRun => last.audit.queryStabilityScore < 1000

(* The stability query finds nothing to average for the query text: it     *)
(* fails on a retrieval_logs without rank_delta or is_exploration, or no   *)
(* non-exploration row of the query carries a rank delta.                  *)
NoStabilityHistory(db, queryText) ==
    \/ ~HasColumns(db, "retrieval_logs", StabilityCols)
    \/ \A k \in 1..Len(db.logs) :
          ~(/\ db.logs[k].query = queryText
            /\ db.logs[k].is_exploration = 0
            /\ db.logs[k].rank_delta # Null)

(* C25: a hybridSearch call that reaches the stability query without       *)
(* history for the query text uses stability 1.0 and completes: both       *)
(* retrievals have run and the fused list is returned and shown.           *)
C25_AbsentHistoryIsStable ==
    (/\ last.op = "embeddingsReady" /\ last.hybrid /\ last.path = "full"
     /\ NoStabilityHistory(Current, last.query))
    => /\ last.audit.queryStabilityScore = 1000
       /\ last.dense /\ last.sparse
       /\ last.returned # << >>
       /\ resultsTable = last.returned

(* A query has gone through the fusion on a workspace whose retrieval_logs *)
(* has no rank_delta column, with stability 1.0 and five results.          *)
C25_Witness ==
    /\ last.op = "embeddingsReady" /\ last.hybrid /\ last.path = "full"
    /\ "rank_delta" \notin Current.cols["retrieval_logs"]
    /\ last.audit.queryStabilityScore = 1000
    /\ Len(last.returned) = SearchLimit

(* The chunk-type boosts of the spec, in twentieths: what a chunk of type  *)
(* chunkType gets under an intent on the dense and on the sparse side.     *)
TypeBoostDense(intent, chunkType) ==
    IF intent = "Definition" /\ chunkType = "definition" THEN 10
    ELSE IF intent = "Summary" /\ chunkType = "summary" THEN 10
    ELSE IF intent = "Procedure" /\ chunkType = "list" THEN 6
    ELSE IF intent = "Example" /\ chunkType = "example" THEN 8
    ELSE 0

TypeBoostSparse(intent, chunkType) ==
    IF intent = "Definition" /\ chunkType = "definition" THEN 6
    ELSE IF intent = "Summary" /\ chunkType = "summary" THEN 6
    ELSE 0

(* C26 as stated: in a list that came out of the fusion, an entry whose    *)
(* stored chunk type matches the intent of the query carries, on top of    *)
(* its RRF terms and the stability bias, the chunk-type boost of the dense *)
(* side if it was in the dense list and that of the sparse side if it was  *)
(* in the sparse list.                                                     *)
C26_ChunkTypeBoost ==
    (last.op = "embeddingsReady" /\ last.hybrid /\ last.path = "full")
    => \A i \in 1..Len(last.returned) :
          LET e == last.returned[i]
              intent == detectIntent(last.query)
              chunkType == Current.embeddings[e.id].chunk_type
          IN (~e.isExploration /\ TypeBoostDense(intent, chunkType) > 0)
             => e.score.num >=
                  (IF e.semanticRank > 0
                   THEN RrfTerm(weightSemantic(intent), e.semanticRank)
                          + TypeBoostDense(intent, chunkType) * RrfScale
                   ELSE 0)
                  + (IF e.keywordRank > 0
                     THEN RrfTerm(weightKeyword(intent), e.keywordRank)
                            + TypeBoostSparse(intent, chunkType) * RrfScale
                     ELSE 0)

(* The phrase lists in the order of the tests. *)
IntentOrder ==
    << [intent |-> "Definition", phrases |-> DefinitionPhrases],
       [intent |-> "Procedure", phrases |-> ProcedurePhrases],
       [intent |-> "Summary", phrases |-> SummaryPhrases],
       [intent |-> "Example", phrases |-> ExamplePhrases] >>

(* p occurs somewhere in q. *)
IsSubstring(q, p) == \E i \in 1..(Len(q) - Len(p) + 1) : SubSeq(q, i, i + Len(p) - 1) = p

(* The earliest category with a phrase for which Has holds, or General. *)
FirstCategory(q, Has(_, _)) ==
    LET hits == { k \in 1..Len(IntentOrder) : \E p \in IntentOrder[k].phrases : Has(q, p) }
    IN IF hits = {} THEN "General" ELSE IntentOrder[SetMin(hits)].intent

(* C27 as stated: detectIntent returns the first category, in the order    *)
(* Definition, Procedure, Summary, Example, one of whose phrases is        *)
(* contained in the lowercased query, and General when none is.            *)
C27_FirstContainedCategory ==
    last.op = "detectIntent" => last.intent = FirstCategory(toLower(last.query), IsSubstring)

(* C27, amended: the same with containment as whole words: the phrase      *)
(* occurs in the lowercased query with no word character right before or   *)
(* right after it.                                                         *)
C27_FirstWholeWordCategory ==
    last.op = "detectIntent" => last.intent = FirstCategory(toLower(last.query), ContainsPhrase)

(* A query with a Procedure phrase in front of a capitalised Definition    *)
(* phrase has been classified as Definition.                               *)
C27_Witness ==
    /\ last.op = "detectIntent"
    /\ ContainsAny(toLower(last.query), ProcedurePhrases)
    /\ ContainsAny(toLower(last.query), DefinitionPhrases)
    /\ ~ContainsAny(last.query, DefinitionPhrases)
    /\ last.intent = "Definition"

BatchMean(scores) == Sum(scores) \div Len(scores)

(* The call restarted the statistics of a client that had counted batches. *)
DriftReset ==
    /\ last.before.m_sampleCount > 0
    /\ last.client.m_sampleCount = 1
    /\ last.client.m_mean = BatchMean(last.scores)

(* C28: a non-frozen batch restarts the statistics (count from 0, mean :=  *)
(* batch mean) exactly when at least 5 batches have been counted (or the   *)
(* statistics were loaded) and |batchMean - mean| > 0.4; with fewer than 5 *)
(* counted batches there is no reset.                                      *)
C28_DriftActiveFromFive ==
    (last.op = "rerank" /\ checkConsistency(last.scores) /\ last.before.m_sampleCount > 0)
        => (DriftReset <=> /\ last.before.m_sampleCount >= 5
                           /\ Abs(BatchMean(last.scores) - last.before.m_mean) > 400)

(* A worker has scored a non-empty list with a batch of scores, and the    *)
(* completion handler has run. *)
BatchScored ==
    /\ last.op = "rerankingReady"
    /\ last.rerank.reply.kind = "scores"
    /\ last.rerank.candidates # << >>

FrozenBatch(scores) ==
    Sum([i \in 1..Len(scores) |-> (scores[i] - 500) * (scores[i] - 500)]) < 1000

(* C29: a batch whose sum of squared deviations from 0.5 is below 0.001    *)
(* leaves mean, standard deviation and sample count as they were, raises   *)
(* the anomaly signal, and its scores are normalized with the unchanged    *)
(* statistics; every other non-empty batch updates the statistics exactly  *)
(* once and raises no anomaly.                                             *)
C29_FrozenBatchKeepsStats ==
    BatchScored =>
        LET t == last.rerank
        IN IF FrozenBatch(t.reply.scores)
           THEN /\ t.after = t.before
                /\ t.anomaly
                /\ \A i \in 1..Len(t.candidates) :
                      t.normalized[t.candidates[i].id] = normalize(t.before, t.reply.scores[i])
           ELSE /\ t.after = updateStats(t.before, t.reply.scores)
                /\ t.after.m_sampleCount = t.before.m_sampleCount + 1
                       \/ t.after.m_sampleCount = 1
                /\ ~t.anomaly

(* A frozen batch has been scored and delivered. *)
C29_Witness ==
    /\ BatchScored
    /\ FrozenBatch(last.rerank.reply.scores)
    /\ last.rerank.reranked
    /\ last.rerank.anomaly

(* The completion handler has delivered the list of the worker. *)
RerankDelivered == last.op = "rerankingReady" /\ last.rerank.reranked

(* C30: the list delivered after a successful rerank has at most topK = 5  *)
(* entries, each entry is the submitted candidate at position rerankRank   *)
(* (counted from 0) with its score replaced, no candidate appears twice,   *)
(* and the scores do not increase down the list.                           *)
C30_DeliveredListShape ==
    RerankDelivered =>
        LET candidates == last.rerank.candidates
        IN /\ Len(resultsTable) <= 5
           /\ \A i \in DOMAIN resultsTable :
                 LET k == resultsTable[i].rerankRank + 1
                 IN /\ k \in DOMAIN candidates
                    /\ resultsTable[i] = [candidates[k] EXCEPT !.score = resultsTable[i].score,
                                                               !.rerankRank = k - 1]
           /\ \A i, j \in DOMAIN resultsTable :
                 i # j => /\ resultsTable[i].rerankRank # resultsTable[j].rerankRank
                          /\ resultsTable[i].id # resultsTable[j].id
           /\ \A i \in 1..(Len(resultsTable) - 1) :
                 ~ScoreGreater(resultsTable[i + 1], resultsTable[i])

(* A cache miss has run the MMR stage on a fused list of several entries. *)
MmrStageRan ==
    /\ last.op = "embeddingsReady"
    /\ last.path = "full"
    /\ last.experimentalMmr
    /\ Len(last.audit.fused) > 1

(* The penalty of entry k of the MMR output against the entries before it, *)
(* and the MMR score of a fused entry at that step.                        *)
PenaltyAt(e, k) == diversityPenalty(e, SubSeq(last.audit.diverse, 1, k - 1), m_avgDocEntropy)

ScoreAt(e, k) ==
    MmrLambda(Complexity(last.query, detectIntent(last.query))) * (e.score.num \div 1000)
      - (1000 - MmrLambda(Complexity(last.query, detectIntent(last.query)))) * PenaltyAt(e, k) * 200

(* C31: with experimentalMmr enabled and n > 1 fused entries, the MMR      *)
(* stage yields min(limit, n) distinct entries of the fused list, the      *)
(* first being the top fused entry, each later one maximising              *)
(* lambda * score - (1 - lambda) * penalty among the entries not yet       *)
(* selected, and mmrPenaltyTotal is the sum of the penalties of the        *)
(* entries selected after the first.                                       *)
C31_MmrGreedySelection ==
    MmrStageRan =>
        LET fused == last.audit.fused
            diverse == last.audit.diverse
            n == Len(fused)
        IN /\ Len(diverse) = (IF SearchLimit < n THEN SearchLimit ELSE n)
           /\ \A k \in DOMAIN diverse : \E i \in DOMAIN fused : fused[i] = diverse[k]
           /\ \A j, k \in DOMAIN diverse : j # k => diverse[j].id # diverse[k].id
           /\ diverse[1] = fused[1]
           /\ \A i \in DOMAIN fused : ~ScoreGreater(fused[i], fused[1])
           /\ \A k \in 2..Len(diverse) :
                 \A i \in DOMAIN fused :
                    (\A j \in 1..(k - 1) : diverse[j].id # fused[i].id)
                       => ScoreAt(fused[i], k) <= ScoreAt(diverse[k], k)
           /\ last.audit.mmrPenaltyTotal
                 = Sum([k \in 1..(Len(diverse) - 1) |-> PenaltyAt(diverse[k + 1], k + 1)])

(* The MMR stage has put the entries in another order than the fused       *)
(* scores, at a penalty.                                                   *)
C31_Witness ==
    /\ MmrStageRan
    /\ last.audit.diverse # Take(last.audit.fused, SearchLimit)
    /\ last.audit.mmrPenaltyTotal > 0

(* C32 as stated, on the flag the call hands to logRetrieval: for every    *)
(* hybridSearch call that reaches logRetrieval, with any limit, the        *)
(* exploration flag is set if and only if the returned list has an entry   *)
(* flagged isExploration.                                                  *)
C32_LoggedFlagMatchesList ==
    (last.op = "hybridSearch" /\ last.returned # << >>)
    => (last.audit.explorationInjected
          <=> \E i \in DOMAIN last.returned : last.returned[i].isExploration)

(* C33 as stated: whatever addEntry, clear, workspace switches and         *)
(* searches came before, every id in a list hybridSearch returns is the id *)
(* of a chunk of the open workspace, and a workspace that holds chunks is  *)
(* not answered with an empty list out of the cache.                       *)
C33_ResultsFromOpenWorkspace ==
    (last.op = "embeddingsReady" /\ last.hybrid)
    => /\ \A i \in DOMAIN last.returned : last.returned[i].id \in DOMAIN Current.embeddings
       /\ (last.path = "exact" /\ last.returned = << >>) => last.chunksBefore = 0

(* C34 as stated: a list returned by hybridSearch holds each chunk id at   *)
(* most once, with the MMR stage on or off and exploration on or off.      *)
C34_ReturnedIdsDistinct ==
    last.op = "hybridSearch"
    => \A i, j \in DOMAIN last.returned :
          last.returned[i].id = last.returned[j].id => i = j

(* C35 as stated: whatever workspace switches came before, the sparse      *)
(* retrieval hybridSearch runs on a pool thread reads the database file of *)
(* the open workspace.                                                     *)
C35_SparseReadsOpenWorkspace ==
    (last.op = "embeddingsReady" /\ last.hybrid /\ last.path = "full")
    => last.ftsFile = m_dbPath

(* The latest search was a cache miss. *)
CacheMiss ==
    last.op = "embeddingsReady" /\ last.hybrid /\ last.path \in {"full", "critical"}

(* C36 as stated: in a run in which searches keep being started and       *)
(* answered and cache misses keep coming, all of them fast once the        *)
(* latency average is above 4000 ms, such an average is eventually         *)
(* followed by one of 4000 ms or below.                                    *)
C36_CriticalModeEnds ==
    (/\ []<>(pendingSearch # << >>)
     /\ []<>(pendingSearch = << >> /\ CacheMiss))
    => ((avgLatency > CriticalLatencyLimit) ~> (avgLatency <= CriticalLatencyLimit))

(***************************************************************************)
(* The stability-bias step alone: a fused list of the library, any intent  *)
(* and any stability between 0.0 and 1.0, biased and sorted.               *)
(***************************************************************************)
StabilityValues == { 0, 400, 1000 }

InitBias ==
    /\ files = [name \in Workspaces |-> Library]
    /\ m_dbPath = DefaultWorkspace
    /\ dbOpen = TRUE
    /\ initFrom = Library.user_version
    /\ initLog = init(Library).log
    /\ WidgetsInit
    /\ \E intent \in Intents, stability \in StabilityValues, q \in DiverseQueries,
          embedding \in SearchVectors :
          \E semanticRes \in search(Library, embedding, SearchLimit, 10) :
             last = [op |-> "none", intent |-> intent, stability |-> stability,
                     fused |-> Fuse(semanticRes,
                                    FtsQuery(Library, FtsSelectCols, q, SearchLimit, Fixed(0), 0),
                                    intent),
                     sorted |-> << >>]

BiasAndSort ==
    /\ last.op = "none"
    /\ \E sorted \in SortedLists(Range(StabilityBias(last.fused, last.stability, last.intent))) :
          last' = [last EXCEPT !.op = "bias", !.sorted = sorted]
    /\ UNCHANGED << files, m_dbPath, dbOpen, initFrom, initLog, windowVars, searchVars, steps >>

NextBias == BiasAndSort

SpecBias == InitBias /\ [][NextBias]_vars

FusedScoreOf(id) == last.fused[RankIn(last.fused, id)].score.num

(* C37: the list sorted after the stability bias holds the fused           *)
(* candidates, and of two candidates with different fused scores the one   *)
(* with the higher fused score comes first, for every intent and every     *)
(* stability value.                                                        *)
C37_BiasKeepsFusedOrder ==
    last.op = "bias" =>
       /\ Len(last.sorted) = Len(last.fused)
       /\ { last.sorted[i].id : i \in 1..Len(last.sorted) }
            = { last.fused[i].id : i \in 1..Len(last.fused) }
       /\ \A i, j \in 1..Len(last.sorted) :
             FusedScoreOf(last.sorted[i].id) > FusedScoreOf(last.sorted[j].id) => i < j

C37_Witness ==
    /\ last.op = "bias"
    /\ last.intent = "Definition"
    /\ last.stability = 400
    /\ Len(last.sorted) >= 3
    /\ \E i, j \in 1..Len(last.fused) :
          /\ i < j
          /\ last.fused[i].score.num < last.fused[j].score.num
          /\ RankIn(last.sorted, last.fused[j].id) < RankIn(last.sorted, last.fused[i].id)
          /\ last.sorted[1].score.num > FusedScoreOf(last.sorted[1].id)

(* C38: the rerank client is neither destroyed nor replaced while a rerank *)
(* started on it runs or waits for its completion handler: no job in       *)
(* flight is on a client that setRerankModel has destroyed, and no worker  *)
(* has run on one.                                                         *)
C38_ClientOutlivesRerank ==
    \A k \in DOMAIN reranker.jobs :
       /\ ~reranker.jobs[k].orphaned
       /\ reranker.jobs[k].done => ~reranker.jobs[k].trace.orphan

(* The reply to the embedding request of a chunk or section summary, and   *)
(* the reply to the embedding request of a search click.                   *)
ChunkReplyStep ==
    \E embedding \in IndexVectors, done \in BOOLEAN :
       ChunkReply(ChunkA, embedding, done, 1, 100, 10, "ok")

QueryReplyStep == \E embedding \in IndexVectors : QueryReply(embedding, TRUE, 1, 100, 10)

(* C39: every embedding reply is handled in the mode it was requested in:  *)
(* the embedding of a chunk being indexed is never used as the query       *)
(* vector of a search, and the embedding of a search query is never stored *)
(* with addEntry.                                                          *)
C39_ReplyHandledInRequestedMode ==
    [][/\ ChunkReplyStep => ~(last'.hybrid \/ last'.dense)
       /\ QueryReplyStep => ~last'.added]_vars

====
